---- MODULE Spec2Model ----
(***************************************************************************)
(* A model of the block-puzzle engine of src/utils/gameLogic.ts: the grid, *)
(* the placement validator and executor, the line-clear detector and       *)
(* executor, the terminal-state detector, the hint search and the          *)
(* difficulty-weighted generator.                                          *)
(*                                                                         *)
(* Grids are functions row -> column -> cell with 0-based indices, as the  *)
(* source's arrays.  Shape matrices are tuples of tuples (1-based), read   *)
(* through Cell0 with the source's 0-based indices.  A JavaScript array    *)
(* access outside the array is modelled by what it does: indexing a        *)
(* missing row throws a TypeError, reading a missing column of a row       *)
(* gives undefined.                                                        *)
(*                                                                         *)
(* The host that calls the engine is modelled as well: the game component  *)
(* of src/App.tsx and the one of src/components/ShapeRenderer.tsx, in      *)
(* infinite mode and played by clicks (select a piece, click a cell).      *)
(* Its state variables are the fields of host; a handler sees the state of *)
(* the last render, the effects run after every commit and before the     *)
(* next event, and a callback given to setTimeout runs later with the      *)
(* values it closed over.  Level mode and drag-and-drop are left out.      *)
(***************************************************************************)
EXTENDS Integers, Sequences, FiniteSets, TLC

VARIABLES
    grid,   \* the grid object the caller holds and passes to the engine
    call,   \* the last engine call: its name, arguments and what it returned
    host    \* the state of the host component, when one is mounted

vars == <<grid, call, host>>

----------------------------------------------------------------------------
(* Bounds of the model.  The source fixes the board at 10 x 10; the model  *)
(* is checked on a smaller board, every function being written in terms of *)
(* BOARD_SIZE only.                                                        *)

BOARD_SIZE == 3

\* A game is followed for at most MaxMoves placements and clears.
MaxMoves == 3

\* Shape matrices given to the rotation have at most MaxDim rows and columns.
MaxDim == 3

\* Anchors range from MaxOut cells before the board to MaxOut cells after it.
MaxOut == 2

----------------------------------------------------------------------------
(* constants.ts *)

SHAPE_COLORS ==
    << "#ef4444", "#f97316", "#eab308", "#22c55e",
       "#06b6d4", "#3b82f6", "#a855f7", "#ec4899" >>

\* Mutant of SHAPES_TIER_1: the small L [[0,1],[1,1]] has lost its lower left
\* cell, so that its first column is empty.
SHAPES_TIER_1_Padded ==
    << << <<1>> >>,
       << <<1, 1>> >>,
       << <<1>>, <<1>> >>,
       << <<1, 1>>, <<1, 1>> >>,
       << <<1, 0>>, <<1, 1>> >>,
       << <<0, 1>>, <<0, 1>> >>,
       << <<1, 1>>, <<1, 0>> >>,
       << <<1, 1>>, <<0, 1>> >>,
       << <<1, 1, 1>> >>,
       << <<1>>, <<1>>, <<1>> >> >>

SHAPES_TIER_1 ==
    << << <<1>> >>,
       << <<1, 1>> >>,
       << <<1>>, <<1>> >>,
       << <<1, 1>>, <<1, 1>> >>,
       << <<1, 0>>, <<1, 1>> >>,
       << <<0, 1>>, <<1, 1>> >>,
       << <<1, 1>>, <<1, 0>> >>,
       << <<1, 1>>, <<0, 1>> >>,
       << <<1, 1, 1>> >>,
       << <<1>>, <<1>>, <<1>> >> >>

SHAPES_TIER_2 ==
    << << <<1, 1, 1, 1>> >>,
       << <<1>>, <<1>>, <<1>>, <<1>> >>,
       << <<1, 1, 1>>, <<1, 1, 1>> >>,
       << <<1, 0, 0>>, <<1, 0, 0>>, <<1, 1, 1>> >>,
       << <<0, 0, 1>>, <<0, 0, 1>>, <<1, 1, 1>> >>,
       << <<1, 1, 1>>, <<1, 0, 0>>, <<1, 0, 0>> >>,
       << <<1, 1, 1>>, <<0, 0, 1>>, <<0, 0, 1>> >> >>

SHAPES_TIER_3 ==
    << << <<1, 1, 1, 1, 1>> >>,
       << <<1>>, <<1>>, <<1>>, <<1>>, <<1>> >>,
       << <<1, 1, 1>>, <<0, 1, 0>> >>,
       << <<0, 1, 0>>, <<1, 1, 1>> >>,
       << <<1, 0>>, <<1, 1>>, <<1, 0>> >>,
       << <<0, 1>>, <<1, 1>>, <<0, 1>> >>,
       << <<1, 1, 0>>, <<0, 1, 1>> >>,
       << <<0, 1, 1>>, <<1, 1, 0>> >>,
       << <<1, 0>>, <<1, 1>>, <<0, 1>> >>,
       << <<0, 1>>, <<1, 1>>, <<1, 0>> >> >>

SHAPES == SHAPES_TIER_1 \o SHAPES_TIER_2 \o SHAPES_TIER_3

----------------------------------------------------------------------------
(* types.ts and the JavaScript values the engine meets *)

\* CellState: null = empty, a string = color hex.
null == "null"

\* What reading outside an array gives, and the error of indexing undefined.
undefined == "undefined"
TypeError == "TypeError"

Range(s) == { s[i] : i \in DOMAIN s }

\* shape[r][c] with the source's 0-based indices.
Cell0(shape, r, c) == shape[r + 1][c + 1]

\* grid[r][c] as JavaScript evaluates it.
ReadCell(g, r, c) ==
    IF r \notin DOMAIN g THEN TypeError
    ELSE IF c \notin DOMAIN g[r] THEN undefined
    ELSE g[r][c]

\* g[r][c] = v as JavaScript evaluates it, g[r] being an array: a column the
\* row does not have is added to it.
WriteCell(g, r, c, v) ==
    IF c \in DOMAIN g[r] THEN [g EXCEPT ![r][c] = v]
    ELSE [g EXCEPT ![r] = [j \in (DOMAIN g[r]) \cup {c} |-> IF j = c THEN v ELSE g[r][j]]]

\* 0, 1, ..., n-1 in ascending order: the order of a for loop.
UpTo(n) == [i \in 1..n |-> i - 1]

----------------------------------------------------------------------------
(* gameLogic.ts *)

createEmptyGrid == [r \in 0..(BOARD_SIZE - 1) |-> [c \in 0..(BOARD_SIZE - 1) |-> null]]

\* Mutants of isValidPos: row 0 and column 0 taken for outside; row and
\* column BOARD_SIZE taken for inside.
isValidPosFromOne(r, c) == r > 0 /\ r < BOARD_SIZE /\ c > 0 /\ c < BOARD_SIZE
isValidPosInclusive(r, c) == r >= 0 /\ r <= BOARD_SIZE /\ c >= 0 /\ c <= BOARD_SIZE

isValidPos(r, c) == r >= 0 /\ r < BOARD_SIZE /\ c >= 0 /\ c < BOARD_SIZE

\* The cells (r, c) with shape[r][c] === 1 in the order the nested loops of
\* canPlaceShape and placeShapeOnGrid visit them.
RECURSIVE FilledFrom(_, _, _)
FilledFrom(shape, r, c) ==
    IF r >= Len(shape) THEN << >>
    ELSE IF c >= Len(shape[r + 1]) THEN FilledFrom(shape, r + 1, 0)
    ELSE (IF Cell0(shape, r, c) = 1 THEN << <<r, c>> >> ELSE << >>)
         \o FilledFrom(shape, r, c + 1)

FilledCells(shape) == FilledFrom(shape, 0, 0)

\* Mutant of canPlaceShape: a block of the first color counts as empty.
canPlaceShapeOverFirstColor(g, shape, pos) ==
    \A r \in 0..(Len(shape) - 1) : \A c \in 0..(Len(shape[r + 1]) - 1) :
        Cell0(shape, r, c) = 1 =>
            /\ isValidPos(pos.r + r, pos.c + c)
            /\ ReadCell(g, pos.r + r, pos.c + c) \in { null, SHAPE_COLORS[1] }

\* canPlaceShape: false at the first filled cell that is out of bounds or
\* lies on a block, true when the loops end.
canPlaceShape(g, shape, pos) ==
    \A r \in 0..(Len(shape) - 1) : \A c \in 0..(Len(shape[r + 1]) - 1) :
        Cell0(shape, r, c) = 1 =>
            /\ isValidPos(pos.r + r, pos.c + c)
            /\ ReadCell(g, pos.r + r, pos.c + c) = null

\* The same loops from the k-th filled cell on, step by step: the value
\* returned, the grid cells indexed so far and whether indexing threw.
RECURSIVE CanPlaceFrom(_, _, _, _, _)
CanPlaceFrom(g, cells, pos, k, reads) ==
    IF k > Len(cells) THEN [result |-> TRUE, reads |-> reads, threw |-> FALSE]
    ELSE LET boardR == pos.r + cells[k][1]
             boardC == pos.c + cells[k][2]
         IN  IF ~isValidPos(boardR, boardC)
             THEN [result |-> FALSE, reads |-> reads, threw |-> FALSE]
             ELSE LET v == ReadCell(g, boardR, boardC)
                      seen == reads \cup {<<boardR, boardC>>}
                  IN  IF v = TypeError
                      THEN [result |-> FALSE, reads |-> seen, threw |-> TRUE]
                      ELSE IF v # null
                      THEN [result |-> FALSE, reads |-> seen, threw |-> FALSE]
                      ELSE CanPlaceFrom(g, cells, pos, k + 1, seen)

canPlaceShapeRun(g, shape, pos) == CanPlaceFrom(g, FilledCells(shape), pos, 1, {})

\* Mutant of AnchorScan: the column loop stops one column early.
AnchorScanShort(k) ==
    [r |-> (k - 1) \div BOARD_SIZE, c |-> (k - 1) % (BOARD_SIZE - 1)]

\* for (let r = 0; r < BOARD_SIZE; r++) for (let c = 0; c < BOARD_SIZE; c++):
\* the k-th anchor the two loops visit, and how many they visit.
ScanLength == BOARD_SIZE * BOARD_SIZE
AnchorScan(k) == [r |-> (k - 1) \div BOARD_SIZE, c |-> (k - 1) % BOARD_SIZE]

\* Mutant of canShapeFitAnywhere: false is returned after the first row.
canShapeFitAnywhereFirstRow(g, shape) ==
    \E c \in 0..(BOARD_SIZE - 1) : canPlaceShape(g, shape, [r |-> 0, c |-> c])

canShapeFitAnywhere(g, shape) ==
    \E k \in 1..ScanLength : canPlaceShape(g, shape, AnchorScan(k))

\* grid.map(row => [...row]): a new outer array of new rows.
CopyGrid(g) == [r \in DOMAIN g |-> [c \in DOMAIN g[r] |-> g[r][c]]]

\* The writes of placeShapeOnGrid from the k-th filled cell on; indexing a
\* row the grid does not have throws.
RECURSIVE PlaceFrom(_, _, _, _, _)
PlaceFrom(newGrid, cells, pos, color, k) ==
    IF k > Len(cells) THEN [grid |-> newGrid, threw |-> FALSE]
    ELSE LET r == pos.r + cells[k][1]
             c == pos.c + cells[k][2]
         IN  IF r \notin DOMAIN newGrid
             THEN [grid |-> newGrid, threw |-> TRUE]
             ELSE PlaceFrom(WriteCell(newGrid, r, c, color), cells, pos, color, k + 1)

\* Mutant of placeShapeOnGridRun: the writes go to the caller's grid.
placeShapeOnGridInPlace(g, shape, pos, color) ==
    LET run == PlaceFrom(g, FilledCells(shape), pos, color, 1)
    IN  [input |-> run.grid, output |-> run.grid, threw |-> run.threw]

\* One run of placeShapeOnGrid: input is the caller's grid after the call
\* (the writes go to the copy only), output the grid returned.
placeShapeOnGridRun(g, shape, pos, color) ==
    LET run == PlaceFrom(CopyGrid(g), FilledCells(shape), pos, color, 1)
    IN  [input |-> g, output |-> run.grid, threw |-> run.threw]

placeShapeOnGrid(g, shape, pos, color) == placeShapeOnGridRun(g, shape, pos, color).output

\* Mutant of RowIsFull: some for every.
RowIsFullSome(g, r) == \E c \in DOMAIN g[r] : g[r][c] # null

\* grid[r].every(cell => cell !== null)
RowIsFull(g, r) == \A c \in DOMAIN g[r] : g[r][c] # null

\* Mutant of ColIsFull: the loop starts at row 1.
ColIsFullFromOne(g, c) == \A r \in 1..(BOARD_SIZE - 1) : ReadCell(g, r, c) # null

\* The inner loop of "Check Cols": full unless some grid[r][c] === null.
ColIsFull(g, c) == \A r \in 0..(BOARD_SIZE - 1) : ReadCell(g, r, c) # null

\* Mutant of findClearedLines: the loop over the rows is missing.
findClearedLinesColsOnly(g) ==
    [rowIndices |-> << >>,
     colIndices |-> SelectSeq(UpTo(BOARD_SIZE), LAMBDA c : ColIsFull(g, c))]

findClearedLines(g) ==
    [rowIndices |-> SelectSeq(UpTo(BOARD_SIZE), LAMBDA r : RowIsFull(g, r)),
     colIndices |-> SelectSeq(UpTo(BOARD_SIZE), LAMBDA c : ColIsFull(g, c))]

\* Mutant of ClearRow: the loop runs to column BOARD_SIZE included.
RECURSIVE ClearRowInclusive(_, _, _)
ClearRowInclusive(newGrid, r, c) ==
    IF c > BOARD_SIZE THEN newGrid
    ELSE ClearRowInclusive(WriteCell(newGrid, r, c, null), r, c + 1)

\* newGrid[r][c] = null for every c of the for loop, from column c on.
RECURSIVE ClearRow(_, _, _)
ClearRow(newGrid, r, c) ==
    IF c >= BOARD_SIZE THEN newGrid
    ELSE ClearRow(WriteCell(newGrid, r, c, null), r, c + 1)

\* Mutant of ClearCol: the loop breaks at the first cell already empty.
RECURSIVE ClearColStopAtEmpty(_, _, _)
ClearColStopAtEmpty(newGrid, c, r) ==
    IF r >= BOARD_SIZE \/ ReadCell(newGrid, r, c) = null THEN newGrid
    ELSE ClearColStopAtEmpty(WriteCell(newGrid, r, c, null), c, r + 1)

\* Mutant of ClearCol: the loop stops one row early.
RECURSIVE ClearColShort(_, _, _)
ClearColShort(newGrid, c, r) ==
    IF r >= BOARD_SIZE - 1 THEN newGrid
    ELSE ClearColShort(WriteCell(newGrid, r, c, null), c, r + 1)

\* newGrid[r][c] = null for every r of the for loop, from row r on.
RECURSIVE ClearCol(_, _, _)
ClearCol(newGrid, c, r) ==
    IF r >= BOARD_SIZE THEN newGrid
    ELSE ClearCol(WriteCell(newGrid, r, c, null), c, r + 1)

\* rowIndices.forEach(...) from its k-th element on.
RECURSIVE ClearRows(_, _, _)
ClearRows(newGrid, rowIndices, k) ==
    IF k > Len(rowIndices) THEN newGrid
    ELSE ClearRows(ClearRow(newGrid, rowIndices[k], 0), rowIndices, k + 1)

\* colIndices.forEach(...) from its k-th element on.
RECURSIVE ClearCols(_, _, _)
ClearCols(newGrid, colIndices, k) ==
    IF k > Len(colIndices) THEN newGrid
    ELSE ClearCols(ClearCol(newGrid, colIndices[k], 0), colIndices, k + 1)

\* One run of clearLines: input is the caller's grid after the call, output
\* the grid returned.
clearLinesRun(g, rowIndices, colIndices) ==
    [input |-> g,
     output |-> ClearCols(ClearRows(CopyGrid(g), rowIndices, 1), colIndices, 1)]

clearLines(g, rowIndices, colIndices) == clearLinesRun(g, rowIndices, colIndices).output

\* The anchor loops of checkGameOver for one shape, with their breaks.
CanPlaceThisShape(g, shape) ==
    \E k \in 1..ScanLength : canPlaceShape(g, shape, AnchorScan(k))

\* Mutant of CheckGameOverFrom: the loop returns after its first shape.
CheckGameOverFirstOnly(g, shapes, i) == ~CanPlaceThisShape(g, shapes[i])

\* for (const shape of shapes) from the i-th shape on.
RECURSIVE CheckGameOverFrom(_, _, _)
CheckGameOverFrom(g, shapes, i) ==
    IF i > Len(shapes) THEN TRUE
    ELSE IF CanPlaceThisShape(g, shapes[i]) THEN FALSE
    ELSE CheckGameOverFrom(g, shapes, i + 1)

\* Mutant of checkGameOver: no test of shapes.length.
checkGameOverNoGuard(g, shapes) == CheckGameOverFrom(g, shapes, 1)

checkGameOver(g, shapes) ==
    IF Len(shapes) = 0 THEN FALSE ELSE CheckGameOverFrom(g, shapes, 1)

\* row.reduce((a, b) => a + b, 0)
RECURSIVE SumSeq(_, _)
SumSeq(row, k) == IF k > Len(row) THEN 0 ELSE row[k] + SumSeq(row, k + 1)

\* shape.matrix.flat().reduce((a, b) => a + b, 0)
RECURSIVE SumFlat(_, _)
SumFlat(matrix, k) ==
    IF k > Len(matrix) THEN 0 ELSE SumSeq(matrix[k], 1) + SumFlat(matrix, k + 1)

\* Mutant of rotateShapeMatrix: the target column is rows - r, one too far.
rotateShapeMatrixOffByOne(matrix) ==
    LET rows == Len(matrix)
        cols == Len(matrix[1])
    IN  [c \in 1..cols |-> [k \in 1..(rows + 1) |->
            IF k = 1 THEN 0 ELSE matrix[rows - k + 2][c]]]

\* rotateShapeMatrix: a cols x rows matrix of zeros, then
\* newMatrix[c][rows - 1 - r] = matrix[r][c] for r < rows and c < cols, where
\* cols is the length of the first row; a row too short gives undefined.
rotateShapeMatrix(matrix) ==
    LET rows == Len(matrix)
        cols == Len(matrix[1])
    IN  [c \in 1..cols |-> [k \in 1..rows |->
            IF c \in DOMAIN matrix[rows - k + 1] THEN matrix[rows - k + 1][c]
            ELSE undefined]]

\* Mutant of SimulatePlacement: the simulation writes on the caller's grid.
SimulatePlacementInPlace(g, shape, pos) ==
    LET run == placeShapeOnGridRun(g, shape.matrix, pos, shape.color)
    IN  [input |-> run.output, output |-> run.output, threw |-> run.threw]

\* const tempGrid = placeShapeOnGrid(grid, shape.matrix, { r, c }, shape.color):
\* the run of the executor on the caller's grid.
SimulatePlacement(g, shape, pos) ==
    placeShapeOnGridRun(g, shape.matrix, pos, shape.color)

\* Mutant of MoveScore: the cleared lines are not counted.
MoveScoreBlocksOnly(tempGrid, shape) == SumFlat(shape.matrix, 1)

\* Mutant of MoveScore: the two weights are exchanged.
MoveScoreSwappedWeights(tempGrid, shape) ==
    LET lines == findClearedLines(tempGrid)
    IN  (Len(lines.rowIndices) + Len(lines.colIndices)) + (SumFlat(shape.matrix, 1) * 20)

\* The score findBestMove gives a candidate whose simulated grid is tempGrid.
MoveScore(tempGrid, shape) ==
    LET lines == findClearedLines(tempGrid)
        linesCleared == Len(lines.rowIndices) + Len(lines.colIndices)
        blocksPlaced == SumFlat(shape.matrix, 1)
    IN  (linesCleared * 20) + blocksPlaced

\* Mutant of Improves: a candidate that ties with the best replaces it.
ImprovesOrTies(score, bestScore) == score >= bestScore

\* if (score > bestScore)
Improves(score, bestScore) == score > bestScore

\* The loops of findBestMove from the k-th (shape, r, c) on, in the order
\* shapes.forEach / for r / for c.  bestMove is << >> for null; g is the
\* caller's grid as the steps before left it, and input what the loops
\* leave of it.
RECURSIVE BestMoveFrom(_, _, _, _)
BestMoveFrom(g, shapes, k, best) ==
    IF k > Len(shapes) * ScanLength
    THEN [bestScore |-> best.bestScore, bestMove |-> best.bestMove, input |-> g]
    ELSE LET shapeIdx == (k - 1) \div ScanLength
             pos == AnchorScan(((k - 1) % ScanLength) + 1)
             shape == shapes[shapeIdx + 1]
         IN  IF canPlaceShape(g, shape.matrix, pos)
             THEN LET sim == SimulatePlacement(g, shape, pos)
                      score == MoveScore(sim.output, shape)
                  IN  IF Improves(score, best.bestScore)
                      THEN BestMoveFrom(sim.input, shapes, k + 1,
                               [bestScore |-> score,
                                bestMove |-> << [shapeIdx |-> shapeIdx, r |-> pos.r, c |-> pos.c] >>])
                      ELSE BestMoveFrom(sim.input, shapes, k + 1, best)
             ELSE BestMoveFrom(g, shapes, k + 1, best)

\* One run of findBestMove: ret is what it returns, input the caller's grid
\* after the call.
findBestMoveRun(g, shapes) ==
    LET run == BestMoveFrom(g, shapes, 1, [bestScore |-> -1, bestMove |-> << >>])
    IN  [ret |-> run.bestMove, input |-> run.input]

findBestMove(g, shapes) == findBestMoveRun(g, shapes).ret

\* Mutant of TierWeights: the scores 2000 and 10000 fall in the lower bracket.
TierWeightsInclusive(currentScore) ==
    IF currentScore <= 2000 THEN [w1 |-> 70, w2 |-> 30, w3 |-> 0]
    ELSE IF currentScore <= 10000 THEN [w1 |-> 40, w2 |-> 40, w3 |-> 20]
    ELSE [w1 |-> 30, w2 |-> 40, w3 |-> 30]

\* The tier weights of a score, in hundredths.
TierWeights(currentScore) ==
    IF currentScore < 2000 THEN [w1 |-> 70, w2 |-> 30, w3 |-> 0]
    ELSE IF currentScore < 10000 THEN [w1 |-> 40, w2 |-> 40, w3 |-> 20]
    ELSE [w1 |-> 30, w2 |-> 40, w3 |-> 30]

\* A value of Math.random() is modelled by its hundredths u: the value u/100.
\* Math.floor(Math.random() * n)
FloorOf(u, n) == (u * n) \div 100

\* getWeightedTier with r = u/100.
getWeightedTier(w, u) ==
    IF u < w.w1 THEN SHAPES_TIER_1
    ELSE IF u < w.w1 + w.w2 THEN SHAPES_TIER_2
    ELSE SHAPES_TIER_3

\* createShape: id is the string drawn, u the draw of the color.
createShape(matrix, id, u) ==
    [id |-> id, matrix |-> matrix, color |-> SHAPE_COLORS[FloorOf(u, Len(SHAPE_COLORS)) + 1]]

\* Mutant of Swap: a[j] = a[i] alone, the other half of the exchange lost.
SwapOverwrite(a, i, j) == [a EXCEPT ![j + 1] = a[i + 1]]

\* [a[i], a[j]] = [a[j], a[i]] with 0-based i and j.
Swap(a, i, j) == [a EXCEPT ![i + 1] = a[j + 1], ![j + 1] = a[i + 1]]

\* Mutant of HasEmptyCell: the loop stops one row early.
HasEmptyCellShort(g) ==
    \E r \in 0..(BOARD_SIZE - 2) : \E c \in DOMAIN g[r] : g[r][c] = null

\* grid[r].some(c => c === null) for some r of the for loop.
HasEmptyCell(g) ==
    \E r \in 0..(BOARD_SIZE - 1) : \E c \in DOMAIN g[r] : g[r][c] = null

\* One run of generateSmartShapes; rnd holds what the calls of Math.random
\* return: t1 (the tier 1 shape), tier and pick (the tier and the shape of
\* the two weighted slots), j (the two swaps of the shuffle), id and color
\* (of the three pieces and of the 1x1 replacement).  sampled is the hand
\* before the safety check, hand the hand returned, input the caller's grid
\* after the call.
generateSmartShapesRun(currentScore, g, rnd) ==
    LET w == TierWeights(currentScore)
        first == createShape(SHAPES_TIER_1[FloorOf(rnd.t1, Len(SHAPES_TIER_1)) + 1],
                             rnd.id[1], rnd.color[1])
        Weighted(i) ==
            LET tier == getWeightedTier(w, rnd.tier[i])
            IN  createShape(tier[FloorOf(rnd.pick[i], Len(tier)) + 1],
                            rnd.id[i + 1], rnd.color[i + 1])
        newShapes == << first, Weighted(1), Weighted(2) >>
        shuffled == Swap(Swap(newShapes, 2, FloorOf(rnd.j[1], 3)), 1, FloorOf(rnd.j[2], 2))
        anyFits == \E i \in 1..Len(shuffled) : canShapeFitAnywhere(g, shuffled[i].matrix)
        replace == HasEmptyCell(g) /\ ~anyFits
    IN  [sampled |-> shuffled,
         hand |-> IF replace
                  THEN [shuffled EXCEPT ![1] = createShape(<< <<1>> >>, rnd.id[4], rnd.color[4])]
                  ELSE shuffled,
         input |-> g]

generateSmartShapes(currentScore, g, rnd) == generateSmartShapesRun(currentScore, g, rnd).hand

----------------------------------------------------------------------------
(* The inputs the engine is called with. *)

Coords == 0..(BOARD_SIZE - 1)
Cells == Coords \X Coords

\* The grid whose filled cells are exactly those of filled, tagged with two
\* colors of the palette in a checkerboard.
GridOf(filled) ==
    [r \in Coords |-> [c \in Coords |->
        IF <<r, c>> \in filled THEN SHAPE_COLORS[((r + c) % 2) + 1] ELSE null]]

\* No cell, or one cell; one cell or two cells.
OneCell == { {} } \cup { {p} : p \in Cells }
TwoCells == { {p, q} : p \in Cells, q \in Cells }

\* The cells of the rows of R and of the columns of C.
Cross(R, C) == { p \in Cells : p[1] \in R \/ p[2] \in C }

\* Grids with at most one block, with at most one hole, and grids of full
\* rows and full columns.
InputGrids ==
    { GridOf(S) : S \in OneCell }
    \cup { GridOf(Cells \ S) : S \in OneCell }
    \cup { GridOf(Cross(R, C)) : R \in SUBSET Coords, C \in SUBSET Coords }

\* One row or one column, filled but for its first or its last cell.
LinesWithGap ==
    { Cross({i}, {}) \ {<<i, k>>} : i \in Coords, k \in {0, BOARD_SIZE - 1} }
    \cup { Cross({}, {i}) \ {<<k, i>>} : i \in Coords, k \in {0, BOARD_SIZE - 1} }

\* Grids with at most one block, grids with at most two holes and grids of
\* one line that lacks one cell.
SearchGrids ==
    { GridOf(S) : S \in OneCell } \cup { GridOf(Cells \ S) : S \in OneCell \cup TwoCells }
    \cup { GridOf(S) : S \in LinesWithGap }

\* The empty grid, the full grid, and full grids with one hole in the first
\* or in the last corner, two adjacent holes, two holes on a diagonal and an
\* L of three holes.
GeneratorGrids ==
    { createEmptyGrid }
    \cup { GridOf(Cells \ H) :
             H \in { {}, {<<0, 0>>}, {<<0, 0>>, <<0, 1>>}, {<<0, 0>>, <<1, 1>>},
                     {<<0, 0>>, <<1, 0>>, <<1, 1>>},
                     {<<BOARD_SIZE - 1, BOARD_SIZE - 1>>} } }

\* Anchors on the board and up to MaxOut cells outside it on every side.
AnchorCoords == (0 - MaxOut)..(BOARD_SIZE - 1 + MaxOut)
Anchors == [r : AnchorCoords, c : AnchorCoords]

\* The anchors on the board, those the search functions try.
BoardAnchors == [r : Coords, c : Coords]

\* Shapes of the three catalogs, among them one whose anchor cell is not
\* filled and two that fit no board smaller than 4 resp. 5.
CatalogShapes ==
    { SHAPES_TIER_1[1], SHAPES_TIER_1[2], SHAPES_TIER_1[3], SHAPES_TIER_1[6],
      SHAPES_TIER_1[9], SHAPES_TIER_2[1], SHAPES_TIER_3[2] }

\* Shape definitions whose first column resp. first row holds no filled cell.
PaddedShapes == { << <<0, 1>>, <<0, 1>> >>, << <<0, 0>>, <<1, 1>> >> }

InputShapes == CatalogShapes \cup PaddedShapes

\* The tag a placement stamps: a color no input grid holds.
PlaceColor == SHAPE_COLORS[3]

\* The sequence of the elements of the set S of numbers in ascending order.
Ascending(S) == SelectSeq(UpTo(BOARD_SIZE), LAMBDA i : i \in S)

\* A piece (ShapeObj) of the given matrix; k names it and picks its color.
Piece(k, matrix) ==
    [id |-> <<"s1", "s2", "s3", "s4", "s5">>[k], matrix |-> matrix,
     color |-> SHAPE_COLORS[k + 3]]

\* Pieces as the generator makes them, of catalog shapes: 1x1, 2h, 2v, the
\* small L whose anchor cell is not filled, and 4h.
InputPieces ==
    { Piece(1, SHAPES_TIER_1[1]), Piece(2, SHAPES_TIER_1[2]), Piece(3, SHAPES_TIER_1[3]),
      Piece(4, SHAPES_TIER_1[6]), Piece(5, SHAPES_TIER_2[1]) }

\* The size of a full hand: one tier 1 piece and the two weighted ones.
HAND_SIZE == 3

\* The pieces of h in ascending or in descending order of their names.
Monotone(h) ==
    LET no(p) == CHOOSE k \in 1..Cardinality(InputPieces) : p = Piece(k, p.matrix)
    IN  \/ \A i, j \in DOMAIN h : i < j => no(h[i]) < no(h[j])
        \/ \A i, j \in DOMAIN h : i < j => no(h[i]) > no(h[j])

\* Hands of at most HAND_SIZE pieces, each piece at most once: every hand
\* that is not full, in every order, and the full hands in two orders.
InputHands ==
    { h \in UNION { [1..n -> InputPieces] : n \in 0..HAND_SIZE } :
        /\ \A i, j \in DOMAIN h : i # j => h[i] # h[j]
        /\ Len(h) = HAND_SIZE => Monotone(h) }

\* availableShapes.map(s => s.matrix)
Matrices(hand) == [i \in DOMAIN hand |-> hand[i].matrix]

\* Scores on both sides of the two thresholds of the tier weights.
InputScores == { 0, 1999, 2000, 9999, 10000 }

\* What Math.random() returns, in hundredths: its least value, a middle one
\* and one just below 1.
RandomDraws == { 0, 50, 99 }

\* What the calls of Math.random of one run of generateSmartShapes return.
RandomRuns ==
    [t1 : RandomDraws, tier : RandomDraws \X RandomDraws, pick : RandomDraws \X RandomDraws,
     j : RandomDraws \X RandomDraws,
     id : { <<"id1", "id2", "id3", "id4">> }, color : { <<0, 50, 99, 50>> }]

NoCall == [op |-> "none"]

\* No host component is mounted: the engine is called on its own.
NoHost == [file |-> "none"]

Idle == call.op = "none"

----------------------------------------------------------------------------
(* Placement validator and executor: canPlaceShape and placeShapeOnGrid    *)
(* called once on an input grid.  The functions are pure, so one call per  *)
(* behaviour shows all there is.                                           *)

CanPlaceShape(shape, pos) ==
    /\ call.op = "none"
    /\ LET run == canPlaceShapeRun(grid, shape, pos)
       IN  call' = [op |-> "canPlaceShape", shape |-> shape, pos |-> pos,
                    ret |-> canPlaceShape(grid, shape, pos),
                    returned |-> run.result, reads |-> run.reads, threw |-> run.threw]
    /\ UNCHANGED grid
    /\ UNCHANGED host

PlaceShapeOnGrid(shape, pos, color) ==
    /\ call.op = "none"
    /\ LET run == placeShapeOnGridRun(grid, shape, pos, color)
       IN  /\ call' = [op |-> "placeShapeOnGrid", grid |-> grid, shape |-> shape,
                       pos |-> pos, color |-> color,
                       ret |-> run.output, threw |-> run.threw]
           /\ grid' = run.input
    /\ UNCHANGED host

InitInput == grid \in InputGrids /\ call = NoCall /\ host = NoHost

NextPlacement ==
    \/ Idle /\ \E shape \in InputShapes, pos \in Anchors : CanPlaceShape(shape, pos)
    \/ Idle /\ \E shape \in InputShapes, pos \in Anchors : PlaceShapeOnGrid(shape, pos, PlaceColor)

SpecPlacement == InitInput /\ [][NextPlacement]_vars

----------------------------------------------------------------------------
(* Line-clear detector and executor: findClearedLines and clearLines       *)
(* called once on an input grid.                                           *)

FindClearedLines ==
    /\ call.op = "none"
    /\ call' = [op |-> "findClearedLines", grid |-> grid, ret |-> findClearedLines(grid)]
    /\ UNCHANGED grid
    /\ UNCHANGED host

ClearLines(rowIndices, colIndices) ==
    /\ call.op = "none"
    /\ LET run == clearLinesRun(grid, rowIndices, colIndices)
       IN  /\ call' = [op |-> "clearLines", grid |-> grid, rowIndices |-> rowIndices,
                       colIndices |-> colIndices, ret |-> run.output]
           /\ grid' = run.input
    /\ UNCHANGED host

NextLines ==
    \/ Idle /\ FindClearedLines
    \/ Idle /\ \E R \in SUBSET Coords, C \in SUBSET Coords :
                   ClearLines(Ascending(R), Ascending(C))

SpecLines == InitInput /\ [][NextLines]_vars

----------------------------------------------------------------------------
(* Terminal-state detector and hint search: canShapeFitAnywhere,           *)
(* checkGameOver and findBestMove called once on an input grid.            *)

CanShapeFitAnywhere(shape) ==
    /\ call.op = "none"
    /\ call' = [op |-> "canShapeFitAnywhere", grid |-> grid, shape |-> shape,
                ret |-> canShapeFitAnywhere(grid, shape)]
    /\ UNCHANGED grid
    /\ UNCHANGED host

CheckGameOver(shapes) ==
    /\ call.op = "none"
    /\ call' = [op |-> "checkGameOver", grid |-> grid, shapes |-> shapes,
                ret |-> checkGameOver(grid, shapes)]
    /\ UNCHANGED grid
    /\ UNCHANGED host

FindBestMove(hand) ==
    /\ call.op = "none"
    /\ LET run == findBestMoveRun(grid, hand)
       IN  /\ call' = [op |-> "findBestMove", grid |-> grid, shapes |-> hand,
                       ret |-> run.ret]
           /\ grid' = run.input
    /\ UNCHANGED host

InitSearch == grid \in SearchGrids /\ call = NoCall /\ host = NoHost

NextSearch ==
    \/ Idle /\ \E shape \in InputShapes : CanShapeFitAnywhere(shape)
    \/ Idle /\ \E hand \in InputHands : CheckGameOver(Matrices(hand))
    \/ Idle /\ \E hand \in InputHands : FindBestMove(hand)

SpecSearch == InitSearch /\ [][NextSearch]_vars

----------------------------------------------------------------------------
(* Difficulty-weighted generator: generateSmartShapes called once with a   *)
(* score, a grid and the values its calls of Math.random return.           *)

GenerateSmartShapes(currentScore, rnd) ==
    /\ call.op = "none"
    /\ LET run == generateSmartShapesRun(currentScore, grid, rnd)
       IN  /\ call' = [op |-> "generateSmartShapes", currentScore |-> currentScore,
                       grid |-> grid, sampled |-> run.sampled, ret |-> run.hand]
           /\ grid' = run.input
    /\ UNCHANGED host

\* Scores around the two thresholds of the tier weights.
TierScores == InputScores \cup { 1, 2001, 10001, 20000 }

\* Every value of Math.random() to the hundredth.
TierDraws == 0..99

\* One evaluation of getWeightedTier inside generateSmartShapes(currentScore, grid),
\* its draw being u/100.
GetWeightedTier(currentScore, u) ==
    /\ call.op = "none"
    /\ call' = [op |-> "getWeightedTier", currentScore |-> currentScore, u |-> u,
                weights |-> TierWeights(currentScore),
                ret |-> getWeightedTier(TierWeights(currentScore), u)]
    /\ UNCHANGED grid
    /\ UNCHANGED host

InitGenerator == grid \in GeneratorGrids /\ call = NoCall /\ host = NoHost

NextGenerator ==
    \/ Idle /\ \E currentScore \in InputScores, rnd \in RandomRuns :
                   GenerateSmartShapes(currentScore, rnd)
    \/ Idle /\ \E currentScore \in TierScores, u \in TierDraws :
                   GetWeightedTier(currentScore, u)

SpecGenerator == InitGenerator /\ [][NextGenerator]_vars

----------------------------------------------------------------------------
(* Rotation of a shape matrix, repeated as the host repeats it on a piece. *)

\* The shape matrices of at most MaxDim rows and MaxDim columns.
RectangularMatrices ==
    UNION { [1..rows -> [1..cols -> {0, 1}]] : rows \in 1..MaxDim, cols \in 1..MaxDim }

\* The first rotation of a matrix.
RotateShapeMatrix(matrix) ==
    /\ call.op = "none"
    /\ call' = [op |-> "rotateShapeMatrix", original |-> matrix,
                matrix |-> rotateShapeMatrix(matrix), turns |-> 1]
    /\ UNCHANGED grid
    /\ UNCHANGED host

\* One more rotation of the matrix rotated last; turns counts the
\* rotations modulo 4.
RotateAgain ==
    /\ call.op = "rotateShapeMatrix"
    /\ call' = [call EXCEPT !.matrix = rotateShapeMatrix(@), !.turns = (@ + 1) % 4]
    /\ UNCHANGED grid
    /\ UNCHANGED host

InitRotate == grid = createEmptyGrid /\ call = NoCall /\ host = NoHost

NextRotate ==
    \/ Idle /\ \E matrix \in RectangularMatrices : RotateShapeMatrix(matrix)
    \/ RotateAgain

SpecRotate == InitRotate /\ [][NextRotate]_vars

----------------------------------------------------------------------------
(* A grid from createEmptyGrid on, through validated placements and clears, *)
(* the caller adopting the grid each call returns.                          *)

\* The shapes placed in a game: 1x1, 2h, 2v and the small L.
GameShapes ==
    { SHAPES_TIER_1[1], SHAPES_TIER_1[2], SHAPES_TIER_1[3], SHAPES_TIER_1[6] }

\* The index lists of a clear: no line or one line.
FewLines == { << >> } \cup { << i >> : i \in Coords }

\* if (canPlaceShape(grid, shape, pos)) grid = placeShapeOnGrid(grid, shape, pos, color)
PlaceValidated(shape, pos) ==
    /\ call.moves < MaxMoves
    /\ canPlaceShape(grid, shape, pos)
    /\ grid' = placeShapeOnGridRun(grid, shape, pos, PlaceColor).output
    /\ call' = [op |-> "placeShapeOnGrid", moves |-> call.moves + 1]
    /\ UNCHANGED host

\* grid = clearLines(grid, rowIndices, colIndices) with the lines findClearedLines found
ClearFound ==
    /\ call.moves < MaxMoves
    /\ LET lines == findClearedLines(grid)
       IN  grid' = clearLinesRun(grid, lines.rowIndices, lines.colIndices).output
    /\ call' = [op |-> "clearLines", moves |-> call.moves + 1]
    /\ UNCHANGED host

\* grid = clearLines(grid, rowIndices, colIndices) with lines of the caller's choice
ClearChosen(rowIndices, colIndices) ==
    /\ call.moves < MaxMoves
    /\ grid' = clearLinesRun(grid, rowIndices, colIndices).output
    /\ call' = [op |-> "clearLines", moves |-> call.moves + 1]
    /\ UNCHANGED host

InitGame == grid = createEmptyGrid /\ call = [op |-> "createEmptyGrid", moves |-> 0] /\ host = NoHost

NextGame ==
    \/ \E shape \in GameShapes, pos \in BoardAnchors : PlaceValidated(shape, pos)
    \/ ClearFound
    \/ \E rowIndices \in FewLines, colIndices \in FewLines : ClearChosen(rowIndices, colIndices)

SpecGame == InitGame /\ [][NextGame]_vars

----------------------------------------------------------------------------
(* One round of the host: a validated placement, then the search for the   *)
(* lines to clear on the grid it returned.                                 *)

\* Grids without a full line: at most one block, one line that lacks a
\* cell, the first row and the last column but for the cell they share, and
\* the full grid but for its diagonal.
RoundGrids ==
    { GridOf(S) : S \in OneCell \cup LinesWithGap }
    \cup { GridOf(Cross({0}, {BOARD_SIZE - 1}) \ {<<0, BOARD_SIZE - 1>>}),
           GridOf({ p \in Cells : p[1] # p[2] }) }

\* if (canPlaceShape(grid, shape, pos)) { newGrid = placeShapeOnGrid(grid, shape, pos, color);
\* { rowIndices, colIndices } = findClearedLines(newGrid) }
PlaceAndFindLines(shape, pos) ==
    /\ call.op = "none"
    /\ canPlaceShape(grid, shape, pos)
    /\ LET run == placeShapeOnGridRun(grid, shape, pos, PlaceColor)
       IN  /\ call' = [op |-> "findClearedLines(placeShapeOnGrid)", grid |-> grid,
                       shape |-> shape, pos |-> pos, newGrid |-> run.output,
                       ret |-> findClearedLines(run.output)]
           /\ grid' = run.input
    /\ UNCHANGED host

InitRound == grid \in RoundGrids /\ call = NoCall /\ host = NoHost

NextRound == Idle /\ \E shape \in CatalogShapes, pos \in Anchors : PlaceAndFindLines(shape, pos)

SpecRound == InitRound /\ [][NextRound]_vars

----------------------------------------------------------------------------
(* The functions that only read the grid, each called once on a grid the   *)
(* caller keeps.                                                           *)

NextReaders ==
    \/ Idle /\ \E hand \in InputHands : FindBestMove(hand)
    \/ Idle /\ \E hand \in InputHands : CheckGameOver(Matrices(hand))
    \/ Idle /\ \E shape \in InputShapes : CanShapeFitAnywhere(shape)
    \/ Idle /\ FindClearedLines
    \/ Idle /\ \E currentScore \in InputScores, rnd \in RandomRuns :
                   GenerateSmartShapes(currentScore, rnd)

SpecReaders == InitGenerator /\ [][NextReaders]_vars


\* ---------------------------------------------------------------------------
\* Properties of the placement engine (SpecPlacement)
\* ---------------------------------------------------------------------------

\* The board coordinates the filled cells of shape land on when its
\* top-left corner is anchored at pos; they may lie outside the board.
Footprint(shape, pos) ==
    UNION { { <<pos.r + r - 1, pos.c + c - 1>> :
                c \in { k \in 1..Len(shape[r]) : shape[r][k] = 1 } } :
            r \in 1..Len(shape) }

\* The filled cells of shape, as 0-based (row, column) pairs.
FilledSet(shape) == Footprint(shape, [r |-> 0, c |-> 0])

\* q0 comes before q in the row-major order of the loops.
Before(q0, q) == q0[1] < q[1] \/ (q0[1] = q[1] /\ q0[2] < q[2])

OnBoard(p) == p[1] \in Coords /\ p[2] \in Coords

\* C2: canPlaceShape(G, S, A) is true exactly when every filled cell of S,
\* anchored at A, lands on a coordinate of the board whose cell in G is
\* empty; the anchor itself may be negative or beyond the board.
C2_CanPlaceIffInBoundsAndEmpty ==
    call.op = "canPlaceShape" =>
        (call.ret <=> \A p \in Footprint(call.shape, call.pos) :
                          OnBoard(p) /\ grid[p[1]][p[2]] = null)

\* canPlaceShape accepted an anchor that is not a board coordinate.
C2_Witness ==
    /\ call.op = "canPlaceShape"
    /\ call.ret
    /\ ~OnBoard(<<call.pos.r, call.pos.c>>)

\* C3: canPlaceShape never indexes the grid outside the board and never
\* throws: a grid cell is read only for a filled cell of the shape all of
\* whose predecessors, and itself, passed the bounds test, so the first
\* filled cell out of bounds ends the call with false.
C3_CanPlaceReadsOnlyInsideBoard ==
    call.op = "canPlaceShape" =>
        /\ ~call.threw
        /\ call.returned = call.ret
        /\ call.reads \subseteq Cells
        /\ \A q \in FilledSet(call.shape) :
               <<call.pos.r + q[1], call.pos.c + q[2]>> \in call.reads =>
                   \A q0 \in FilledSet(call.shape) :
                       (q0 = q \/ Before(q0, q)) =>
                           OnBoard(<<call.pos.r + q0[1], call.pos.c + q0[2]>>)
        /\ (\E p \in Footprint(call.shape, call.pos) : ~OnBoard(p)) => ~call.ret

\* A call that read the grid and then met a filled cell out of bounds.
C3_Witness ==
    /\ call.op = "canPlaceShape"
    /\ call.reads # {}
    /\ ~call.ret
    /\ \E p \in Footprint(call.shape, call.pos) : ~OnBoard(p)
    /\ \A p \in call.reads : grid[p[1]][p[2]] = null

\* C4: for a placement canPlaceShape accepts, placeShapeOnGrid returns a new
\* grid that has the color on the cells the shape covers and the input's
\* value everywhere else, and leaves the input grid as it was.
C4_PlaceWritesFootprintOnly ==
    (call.op = "placeShapeOnGrid" /\ canPlaceShape(call.grid, call.shape, call.pos)) =>
        /\ ~call.threw
        /\ DOMAIN call.ret = Coords
        /\ \A r \in Coords :
               /\ DOMAIN call.ret[r] = Coords
               /\ \A c \in Coords :
                      call.ret[r][c] =
                          IF <<r, c>> \in Footprint(call.shape, call.pos)
                          THEN call.color ELSE call.grid[r][c]
        /\ grid = call.grid

\* A legal placement of at least two cells on a grid that holds a block.
C4_Witness ==
    /\ call.op = "placeShapeOnGrid"
    /\ canPlaceShape(call.grid, call.shape, call.pos)
    /\ Cardinality(Footprint(call.shape, call.pos)) >= 2
    /\ \E p \in Cells : call.grid[p[1]][p[2]] # null
    /\ call.ret # call.grid

\* C17, as the specification states it: placeShapeOnGrid does not
\* validate; called with a placement canPlaceShape rejects, because it
\* overlaps blocks or because cells of the shape fall outside the grid, it
\* reports no error and returns a grid with the color written on the cells
\* of the board that the shape covers.
C17_InvalidPlacementOverwritesSilently ==
    (call.op = "placeShapeOnGrid" /\ ~canPlaceShape(call.grid, call.shape, call.pos)) =>
        /\ ~call.threw
        /\ \A p \in Footprint(call.shape, call.pos) \cap Cells :
               call.ret[p[1]][p[2]] = call.color

\* ---------------------------------------------------------------------------
\* Properties of line detection and clearing (SpecLines)
\* ---------------------------------------------------------------------------

StrictlyAscending(s) == \A i, j \in DOMAIN s : i < j => s[i] < s[j]

\* C5: findClearedLines returns exactly the rows all of whose cells are
\* non-empty and exactly the columns all of whose cells are non-empty, each
\* list in ascending order and found independently of the other.
C5_FindClearedLinesExact ==
    call.op = "findClearedLines" =>
        /\ Range(call.ret.rowIndices) =
               { r \in Coords : \A c \in Coords : grid[r][c] # null }
        /\ Range(call.ret.colIndices) =
               { c \in Coords : \A r \in Coords : grid[r][c] # null }
        /\ StrictlyAscending(call.ret.rowIndices)
        /\ StrictlyAscending(call.ret.colIndices)

\* Full rows and a full column that cross, and a row that is not full.
C5_Witness ==
    /\ call.op = "findClearedLines"
    /\ Len(call.ret.rowIndices) >= 2
    /\ Len(call.ret.rowIndices) < BOARD_SIZE
    /\ Len(call.ret.colIndices) >= 1
    /\ Len(call.ret.colIndices) < BOARD_SIZE

\* C6: clearLines returns a new grid whose cell (r, c) is empty when r is a
\* listed row or c a listed column and is the input's cell otherwise; the
\* input grid is left as it was, and with both lists empty the result
\* equals the input.
C6_ClearLinesExact ==
    call.op = "clearLines" =>
        /\ DOMAIN call.ret = Coords
        /\ \A r \in Coords :
               /\ DOMAIN call.ret[r] = Coords
               /\ \A c \in Coords :
                      call.ret[r][c] =
                          IF r \in Range(call.rowIndices) \/ c \in Range(call.colIndices)
                          THEN null ELSE call.grid[r][c]
        /\ grid = call.grid
        /\ (call.rowIndices = << >> /\ call.colIndices = << >>) => call.ret = call.grid

\* A row and a column were cleared of blocks and a block elsewhere was kept.
C6_Witness ==
    /\ call.op = "clearLines"
    /\ \E r \in Range(call.rowIndices), c \in Coords : call.grid[r][c] # null
    /\ \E c \in Range(call.colIndices), r \in Coords :
           r \notin Range(call.rowIndices) /\ call.grid[r][c] # null
    /\ \E p \in Cells : call.ret[p[1]][p[2]] # null

\* C20: clearLines does not depend on the order of rows and columns: its
\* result is that of clearing the rows and then, in a second call, the
\* columns, and that of clearing the columns and then the rows; a cell on
\* a cleared row and a cleared column is empty like any other cleared cell.
C20_ClearOrderIndependent ==
    call.op = "clearLines" =>
        LET rowsOnly == clearLines(call.grid, call.rowIndices, << >>)
            colsOnly == clearLines(call.grid, << >>, call.colIndices)
        IN  /\ call.ret = clearLines(rowsOnly, << >>, call.colIndices)
            /\ call.ret = clearLines(colsOnly, call.rowIndices, << >>)
            /\ \A r \in Range(call.rowIndices) : \A c \in Range(call.colIndices) :
                   call.ret[r][c] = null

\* Rows and columns were cleared whose crossing cells held blocks, on a
\* grid with blocks on other cells of those columns.
C20_Witness ==
    /\ call.op = "clearLines"
    /\ call.rowIndices # << >>
    /\ call.colIndices # << >>
    /\ \A r \in Range(call.rowIndices) : \A c \in Range(call.colIndices) :
           call.grid[r][c] # null
    /\ \E c \in Range(call.colIndices) : \E r \in Coords :
           r \notin Range(call.rowIndices) /\ call.grid[r][c] # null
    /\ \E p \in Cells : call.ret[p[1]][p[2]] # null
    /\ call.rowIndices[1] = 0

\* ---------------------------------------------------------------------------
\* Properties of the search functions (SpecSearch)
\* ---------------------------------------------------------------------------

\* No shape of the collection has a legal anchor on the board.
NoShapeFits(g, shapes) ==
    \A i \in DOMAIN shapes : \A A \in BoardAnchors : ~canPlaceShape(g, shapes[i], A)

\* C7, as the specification states it: checkGameOver is true exactly when
\* no shape of the collection has a legal anchor, for every collection.
C7_GameOverIffNothingFits ==
    call.op = "checkGameOver" => (call.ret <=> NoShapeFits(grid, call.shapes))

\* C7, amended: checkGameOver is true exactly when the collection is
\* non-empty and none of its shapes has a legal anchor.
C7_GameOverIffNonEmptyAndNothingFits ==
    call.op = "checkGameOver" =>
        (call.ret <=> (call.shapes # << >> /\ NoShapeFits(grid, call.shapes)))

\* checkGameOver is true for two shapes on a grid that still has an empty cell.
C7_Witness ==
    /\ call.op = "checkGameOver"
    /\ call.ret
    /\ Len(call.shapes) >= 2
    /\ \E p \in Cells : grid[p[1]][p[2]] = null

\* C8: checkGameOver is false for the empty collection of shapes, whatever
\* the grid holds.
C8_EmptyHandIsNotGameOver ==
    (call.op = "checkGameOver" /\ call.shapes = << >>) => call.ret = FALSE

\* The empty collection checked against a grid without an empty cell.
C8_Witness ==
    /\ call.op = "checkGameOver"
    /\ call.shapes = << >>
    /\ ~call.ret
    /\ \A p \in Cells : grid[p[1]][p[2]] # null

\* C9: findBestMove returns null exactly when no piece of the hand can be
\* placed at any anchor, on the board or outside it.
C9_NullIffNoLegalPlacement ==
    call.op = "findBestMove" =>
        (call.ret = << >> <=>
            \A i \in DOMAIN call.shapes : \A A \in Anchors :
                ~canPlaceShape(grid, call.shapes[i].matrix, A))

\* null for a hand of pieces on a grid that still has an empty cell.
C9_Witness ==
    /\ call.op = "findBestMove"
    /\ call.ret = << >>
    /\ call.shapes # << >>
    /\ \E p \in Cells : grid[p[1]][p[2]] = null

\* The rows and the columns that are full once the shape lies on g at pos.
FullRowsAfter(g, shape, pos) ==
    { r \in Coords : \A c \in Coords : g[r][c] # null \/ <<r, c>> \in Footprint(shape, pos) }

FullColsAfter(g, shape, pos) ==
    { c \in Coords : \A r \in Coords : g[r][c] # null \/ <<r, c>> \in Footprint(shape, pos) }

\* 20 for every line the placement completes plus 1 for every filled cell.
PlacementScore(g, shape, pos) ==
    20 * (Cardinality(FullRowsAfter(g, shape, pos)) + Cardinality(FullColsAfter(g, shape, pos)))
    + Cardinality(FilledSet(shape))

\* The candidate (i, A) comes before the move in the order of the loops.
EarlierCandidate(i, A, move) ==
    \/ i - 1 < move.shapeIdx
    \/ i - 1 = move.shapeIdx /\ Before(<<A.r, A.c>>, <<move.r, move.c>>)

\* C10: a move findBestMove returns is legal, and its score, 20 per line it
\* completes plus the number of cells of the piece, is the greatest over
\* all legal (piece, anchor) pairs.
C10_BestMoveIsLegalAndMaximal ==
    (call.op = "findBestMove" /\ call.ret # << >>) =>
        LET move == call.ret[1]
            piece == call.shapes[move.shapeIdx + 1]
            pos == [r |-> move.r, c |-> move.c]
        IN  /\ move.shapeIdx + 1 \in DOMAIN call.shapes
            /\ canPlaceShape(grid, piece.matrix, pos)
            /\ \A i \in DOMAIN call.shapes : \A A \in BoardAnchors :
                   canPlaceShape(grid, call.shapes[i].matrix, A) =>
                       PlacementScore(grid, piece.matrix, pos)
                           >= PlacementScore(grid, call.shapes[i].matrix, A)

\* The move returned completes a line, and a legal candidate that the loops
\* met before it scores less.
C10_Witness ==
    /\ call.op = "findBestMove"
    /\ call.ret # << >>
    /\ LET move == call.ret[1]
           piece == call.shapes[move.shapeIdx + 1]
           pos == [r |-> move.r, c |-> move.c]
       IN  /\ PlacementScore(grid, piece.matrix, pos) >= 20
           /\ \E i \in DOMAIN call.shapes : \E A \in BoardAnchors :
                  /\ canPlaceShape(grid, call.shapes[i].matrix, A)
                  /\ EarlierCandidate(i, A, move)
                  /\ PlacementScore(grid, call.shapes[i].matrix, A)
                         < PlacementScore(grid, piece.matrix, pos)

\* C11: among the legal candidates of greatest score, findBestMove returns
\* the first of the enumeration: no legal candidate that scores at least as
\* much as the move returned has a smaller piece index, or the same piece
\* and a smaller row, or the same piece and row and a smaller column.
C11_BestMoveIsFirstOfTheBest ==
    (call.op = "findBestMove" /\ call.ret # << >>) =>
        LET move == call.ret[1]
            piece == call.shapes[move.shapeIdx + 1]
            pos == [r |-> move.r, c |-> move.c]
        IN  \A i \in DOMAIN call.shapes : \A A \in BoardAnchors :
                (/\ canPlaceShape(call.grid, call.shapes[i].matrix, A)
                 /\ PlacementScore(call.grid, call.shapes[i].matrix, A)
                        >= PlacementScore(call.grid, piece.matrix, pos))
                => ~EarlierCandidate(i, A, move)

\* A later piece and a later anchor of the same piece tie with the move
\* returned.
C11_Witness ==
    /\ call.op = "findBestMove"
    /\ call.ret # << >>
    /\ LET move == call.ret[1]
           piece == call.shapes[move.shapeIdx + 1]
           pos == [r |-> move.r, c |-> move.c]
           Ties(i, A) ==
               /\ canPlaceShape(call.grid, call.shapes[i].matrix, A)
               /\ PlacementScore(call.grid, call.shapes[i].matrix, A)
                      = PlacementScore(call.grid, piece.matrix, pos)
       IN  /\ \E i \in DOMAIN call.shapes : \E A \in BoardAnchors :
                  i - 1 > move.shapeIdx /\ Ties(i, A)
           /\ \E A \in BoardAnchors :
                  Before(<<move.r, move.c>>, <<A.r, A.c>>) /\ Ties(move.shapeIdx + 1, A)

\* The placement completes a line: a row or a column that is full once the
\* shape lies on g at pos and was not full before.
CompletesLine(g, shape, pos) ==
    \/ \E r \in FullRowsAfter(g, shape, pos) : \E c \in Coords : g[r][c] = null
    \/ \E c \in FullColsAfter(g, shape, pos) : \E r \in Coords : g[r][c] = null

\* C12: line clears dominate piece size: when some legal placement of some
\* piece of the hand completes a row or a column, the move findBestMove
\* returns completes one; so a move that completes none is never returned
\* while a legal placement of a piece of the same size completes one.
C12_LineClearsDominateSize ==
    call.op = "findBestMove" =>
        LET Legal(i, A) == canPlaceShape(call.grid, call.shapes[i].matrix, A)
            Clears(i, A) == CompletesLine(call.grid, call.shapes[i].matrix, A)
            Size(i) == Cardinality(FilledSet(call.shapes[i].matrix))
            SomeClears == \E i \in DOMAIN call.shapes : \E A \in BoardAnchors :
                              Legal(i, A) /\ Clears(i, A)
        IN  /\ SomeClears => call.ret # << >>
            /\ call.ret # << >> =>
                   LET j == call.ret[1].shapeIdx + 1
                       B == [r |-> call.ret[1].r, c |-> call.ret[1].c]
                   IN  /\ SomeClears => Clears(j, B)
                       /\ ~Clears(j, B) =>
                              \A i \in DOMAIN call.shapes : \A A \in BoardAnchors :
                                  (Legal(i, A) /\ Size(i) = Size(j)) => ~Clears(i, A)

\* The move returned completes a line with a piece of one cell although a
\* larger piece of the hand has a legal placement that completes none, and
\* so has the piece returned.
C12_Witness ==
    /\ call.op = "findBestMove"
    /\ call.ret # << >>
    /\ LET move == call.ret[1]
           piece == call.shapes[move.shapeIdx + 1]
       IN  /\ CompletesLine(call.grid, piece.matrix, [r |-> move.r, c |-> move.c])
           /\ Cardinality(FilledSet(piece.matrix)) = 1
           /\ \E A \in BoardAnchors :
                  /\ canPlaceShape(call.grid, piece.matrix, A)
                  /\ ~CompletesLine(call.grid, piece.matrix, A)
           /\ \E i \in DOMAIN call.shapes : \E A \in BoardAnchors :
                  /\ Cardinality(FilledSet(call.shapes[i].matrix)) > 1
                  /\ canPlaceShape(call.grid, call.shapes[i].matrix, A)
                  /\ ~CompletesLine(call.grid, call.shapes[i].matrix, A)

\* ---------------------------------------------------------------------------
\* Properties of the functions that only read the grid (SpecReaders)
\* ---------------------------------------------------------------------------

\* C13: findBestMove, checkGameOver, canShapeFitAnywhere, findClearedLines
\* and generateSmartShapes leave the grid passed to them as it was: after
\* the call every cell of the caller's grid has the value it had before.
C13_ReadersLeaveGridUnchanged ==
    call.op \in { "findBestMove", "checkGameOver", "canShapeFitAnywhere",
                  "findClearedLines", "generateSmartShapes" } =>
        /\ DOMAIN grid = DOMAIN call.grid
        /\ \A r \in DOMAIN grid :
               /\ DOMAIN grid[r] = DOMAIN call.grid[r]
               /\ \A c \in DOMAIN grid[r] : grid[r][c] = call.grid[r][c]

\* findBestMove simulated placements on a grid that holds blocks and has
\* room, and returned a move.
C13_Witness ==
    /\ call.op = "findBestMove"
    /\ call.ret # << >>
    /\ Len(call.shapes) = HAND_SIZE
    /\ \E p \in Cells : call.grid[p[1]][p[2]] # null

\* ---------------------------------------------------------------------------
\* Properties of the generator (SpecGenerator)
\* ---------------------------------------------------------------------------

\* C1: when the grid has at least one empty cell, the hand that
\* generateSmartShapes returns is not a game-over hand: some piece of it
\* can be placed at some anchor.
C1_GeneratedHandIsPlayable ==
    (call.op = "generateSmartShapes" /\ \E p \in Cells : call.grid[p[1]][p[2]] = null) =>
        /\ ~checkGameOver(call.grid, Matrices(call.ret))
        /\ \E i \in DOMAIN call.ret : \E A \in BoardAnchors :
               canPlaceShape(call.grid, call.ret[i].matrix, A)

\* None of the three sampled shapes fitted the grid, which has an empty
\* cell, and the first piece of the hand returned is the 1x1 block.
C1_Witness ==
    /\ call.op = "generateSmartShapes"
    /\ \E p \in Cells : call.grid[p[1]][p[2]] = null
    /\ NoShapeFits(call.grid, Matrices(call.sampled))
    /\ call.ret[1].matrix = << <<1>> >>
    /\ call.sampled[1].matrix # << <<1>> >>

\* C14: generateSmartShapes returns exactly three pieces, at least one of
\* them with a matrix of SHAPES_TIER_1, whatever the score, the grid and
\* the draws, before and after the safety substitution.
C14_ThreePiecesOneSimple ==
    call.op = "generateSmartShapes" =>
        /\ Len(call.ret) = 3
        /\ \E i \in DOMAIN call.ret : call.ret[i].matrix \in Range(SHAPES_TIER_1)
        /\ Len(call.sampled) = 3
        /\ \E i \in DOMAIN call.sampled : call.sampled[i].matrix \in Range(SHAPES_TIER_1)

\* The shuffle left the only simple-tier piece in the first slot and the
\* safety substitution replaced it.
C14_Witness ==
    /\ call.op = "generateSmartShapes"
    /\ call.sampled[1].matrix \in Range(SHAPES_TIER_1)
    /\ \A i \in 2..Len(call.sampled) : call.sampled[i].matrix \notin Range(SHAPES_TIER_1)
    /\ call.ret[1].matrix # call.sampled[1].matrix
    /\ call.ret[1].matrix = << <<1>> >>
\* C15: the tier weights are (0.7, 0.3, 0.0) below 2000, (0.4, 0.4, 0.2)
\* from 2000 to below 10000 and (0.3, 0.4, 0.3) from 10000 on; a draw u
\* below w1 gives the simple tier, a draw from w1 to below w1 + w2 the
\* medium tier, any other draw the complex tier; and below 2000 no hand
\* holds a shape of the complex tier.
C15_TierWeightsStepFunction ==
    /\ call.op = "getWeightedTier" =>
           LET s == call.currentScore
               u == call.u
           IN  /\ s < 2000 =>
                      /\ call.weights = [w1 |-> 70, w2 |-> 30, w3 |-> 0]
                      /\ call.ret = IF u \in 0..69 THEN SHAPES_TIER_1 ELSE SHAPES_TIER_2
               /\ (s >= 2000 /\ s < 10000) =>
                      /\ call.weights = [w1 |-> 40, w2 |-> 40, w3 |-> 20]
                      /\ call.ret = IF u \in 0..39 THEN SHAPES_TIER_1
                                    ELSE IF u \in 40..79 THEN SHAPES_TIER_2
                                    ELSE SHAPES_TIER_3
               /\ s >= 10000 =>
                      /\ call.weights = [w1 |-> 30, w2 |-> 40, w3 |-> 30]
                      /\ call.ret = IF u \in 0..29 THEN SHAPES_TIER_1
                                    ELSE IF u \in 30..69 THEN SHAPES_TIER_2
                                    ELSE SHAPES_TIER_3
    /\ (call.op = "generateSmartShapes" /\ call.currentScore < 2000) =>
           \A i \in DOMAIN call.ret :
               /\ call.ret[i].matrix \notin Range(SHAPES_TIER_3)
               /\ call.sampled[i].matrix \notin Range(SHAPES_TIER_3)

\* At the score 2000 the draw 0.80, the sum of the two first weights of
\* the higher bracket, gives the complex tier.
C15_Witness ==
    /\ call.op = "getWeightedTier"
    /\ call.currentScore = 2000
    /\ call.u = 80
    /\ call.ret = SHAPES_TIER_3
\* ---------------------------------------------------------------------------
\* Properties of the rotation (SpecRotate)
\* ---------------------------------------------------------------------------

\* C16: four applications of rotateShapeMatrix to a rectangular matrix give
\* a matrix with the dimensions and the cells of the original.
C16_FourRotationsAreIdentity ==
    (call.op = "rotateShapeMatrix" /\ call.turns = 0) =>
        /\ Len(call.matrix) = Len(call.original)
        /\ \A r \in DOMAIN call.original :
               /\ Len(call.matrix[r]) = Len(call.original[r])
               /\ \A c \in DOMAIN call.original[r] :
                      call.matrix[r][c] = call.original[r][c]

\* Four rotations of a matrix that is not square and that one rotation and
\* two rotations change.
C16_Witness ==
    /\ call.op = "rotateShapeMatrix"
    /\ call.turns = 0
    /\ Len(call.original) # Len(call.original[1])
    /\ rotateShapeMatrix(rotateShapeMatrix(call.original)) # call.original
    /\ call.matrix = call.original
\* ---------------------------------------------------------------------------
\* Properties of a grid through a game (SpecGame)
\* ---------------------------------------------------------------------------

\* C18: every grid reached from createEmptyGrid by validated placements and
\* by clearLines calls has exactly BOARD_SIZE rows of exactly BOARD_SIZE
\* cells.
C18_GridStaysSquare ==
    call.op \in { "createEmptyGrid", "placeShapeOnGrid", "clearLines" } =>
        /\ DOMAIN grid = 0..(BOARD_SIZE - 1)
        /\ \A r \in DOMAIN grid : DOMAIN grid[r] = 0..(BOARD_SIZE - 1)

\* A clear, after placements, left a grid with blocks in its last column
\* and in its last row.
C18_Witness ==
    /\ call.op = "clearLines"
    /\ call.moves = MaxMoves
    /\ \E r \in Coords : grid[r][BOARD_SIZE - 1] # null
    /\ \E c \in Coords : grid[BOARD_SIZE - 1][c] # null
    /\ \E r \in Coords : \A c \in Coords : grid[r][c] = null
\* ---------------------------------------------------------------------------
\* Properties of a placement followed by the search for lines (SpecRound)
\* ---------------------------------------------------------------------------

\* C19: on a grid without a full row or column, after a legal placement,
\* every row and every column that findClearedLines returns for the new
\* grid holds a cell the placement filled; and when the placement completes
\* no row and no column both lists are empty.
C19_FoundLinesTouchThePlacement ==
    (/\ call.op = "findClearedLines(placeShapeOnGrid)"
     /\ \A r \in Coords : \E c \in Coords : call.grid[r][c] = null
     /\ \A c \in Coords : \E r \in Coords : call.grid[r][c] = null) =>
        /\ \A r \in Range(call.ret.rowIndices) :
               \E c \in Coords : <<r, c>> \in Footprint(call.shape, call.pos)
        /\ \A c \in Range(call.ret.colIndices) :
               \E r \in Coords : <<r, c>> \in Footprint(call.shape, call.pos)
        /\ ~CompletesLine(call.grid, call.shape, call.pos) =>
               (call.ret.rowIndices = << >> /\ call.ret.colIndices = << >>)

\* The placement completed a row and a column of a grid that has another
\* row with blocks, which stays incomplete.
C19_Witness ==
    /\ call.op = "findClearedLines(placeShapeOnGrid)"
    /\ call.ret.rowIndices # << >>
    /\ call.ret.colIndices # << >>
    /\ \E r \in Coords :
           /\ r \notin Range(call.ret.rowIndices)
           /\ \E c \in Coords : c \notin Range(call.ret.colIndices) /\ call.grid[r][c] # null

\* ---------------------------------------------------------------------------
\* More properties of the generator (SpecGenerator)
\* ---------------------------------------------------------------------------

\* C21: the hand returned differs from the sampled hand exactly when the
\* grid has an empty cell and none of the three sampled shapes fits
\* anywhere; then slot 0 holds a [[1]] piece and slots 1 and 2 hold their
\* sampled pieces; on the empty grid the hand is the sampled hand.
C21_SubstitutionIffNothingFits ==
    call.op = "generateSmartShapes" =>
        LET substituted == call.ret # call.sampled
        IN  /\ substituted <=>
                   /\ \E p \in Cells : call.grid[p[1]][p[2]] = null
                   /\ NoShapeFits(call.grid, Matrices(call.sampled))
            /\ substituted =>
                   /\ call.ret[1].matrix = << <<1>> >>
                   /\ call.ret[2] = call.sampled[2]
                   /\ call.ret[3] = call.sampled[3]
            /\ (\A p \in Cells : call.grid[p[1]][p[2]] = null) => ~substituted

\* The substitution on a grid with two empty cells, the other two slots
\* keeping shapes of the medium or the complex tier.
C21_Witness ==
    /\ call.op = "generateSmartShapes"
    /\ call.ret # call.sampled
    /\ Cardinality({ p \in Cells : call.grid[p[1]][p[2]] = null }) = 2
    /\ call.ret[2].matrix \notin Range(SHAPES_TIER_1)
    /\ call.ret[3].matrix \notin Range(SHAPES_TIER_1)

----------------------------------------------------------------------------
(* The host component in infinite mode: the game state of App in           *)
(* src/App.tsx and of the component kept in                                *)
(* src/components/ShapeRenderer.tsx, its event handlers, its two effects   *)
(* and the callback of the timer that clears the lines.  React runs the    *)
(* effects of a render before it handles the next event, so a handler or   *)
(* a timer runs only when no effect has work to do (Settled).  A piece is  *)
(* an object: the hand and the snapshots of the undo history hold the same *)
(* object, told by its id, so what handleRotate assigns to shape.matrix    *)
(* shows in every array that holds the piece.                              *)

\* useState(null) of clearingLines, hint and selectedShapeIdx: null is the
\* empty tuple, a value v the tuple << v >>.
Nothing == << >>

\* The moves of the player followed in one behaviour: the games started,
\* the pieces placed and the tools used.  Once they are made the player
\* is idle, and the effects and the timers run on.
MaxEvents == 4

\* useState<number>(3) of hintLeft, undoLeft, redoLeft, refreshLeft and the
\* infinite inventory { hints: 3, undos: 3, refreshes: 3, rotators: 3 }.
TOOL_STOCK == 3

\* What the calls of Math.random of one generateNewShapes of App.tsx
\* return, in hundredths: two 2x2 and the T-shape [[1,1,1],[0,1,0]], a hand
\* that can end the game and can complete a row leaving a block behind.
AppDraws ==
    { [shape |-> <<12, 12, 71>>, color |-> <<0, 50, 99>>] }

\* What the calls of Math.random of one generateSmartShapes return when
\* ShapeRenderer.tsx refills the hand: 3h, 2x2 and 1x1, or three 2x2.
HostRuns ==
    { [t1 |-> 80, tier |-> <<0, 0>>, pick |-> <<30, 0>>, j |-> <<99, 99>>,
       id |-> <<1, 2, 3, 4>>, color |-> <<0, 50, 99, 50>>],
      [t1 |-> 30, tier |-> <<0, 0>>, pick |-> <<30, 30>>, j |-> <<99, 99>>,
       id |-> <<1, 2, 3, 4>>, color |-> <<0, 50, 99, 50>>] }

\* The cells a click lands on: the first and the last cell of the first
\* column and a cell inside the board.
ClickCells == { <<0, 0>>, <<1, 1>>, <<BOARD_SIZE - 1, 0>> }

\* The state of the component before startNewGame has been called.
Mounted(file) ==
    [file |-> file, view |-> "home", score |-> 0, availableShapes |-> << >>,
     selectedShapeIdx |-> Nothing, isGameOver |-> FALSE, clearingLines |-> Nothing,
     hint |-> Nothing, showResetConfirm |-> FALSE, comboCount |-> 0, streak |-> 0,
     left |-> [hints |-> TOOL_STOCK, undos |-> TOOL_STOCK, redos |-> TOOL_STOCK,
               refreshes |-> TOOL_STOCK, rotators |-> TOOL_STOCK],
     history |-> << >>, redoStack |-> << >>,
     timers |-> << >>,   \* the callbacks given to setTimeout and not yet run
     before |-> << >>,   \* the values the snapshots of history had when taken
     nextId |-> 0, events |-> 0]

\* { grid, score, availableShapes, isGameOver, comboCount, streak }
GameStateOf(g, h) ==
    [grid |-> g, score |-> h.score, availableShapes |-> h.availableShapes,
     isGameOver |-> h.isGameOver, comboCount |-> h.comboCount, streak |-> h.streak]

\* Mutant of WithoutShape: the first piece leaves the hand.
WithoutFirstShape(shapes, shapeIdx) == Tail(shapes)

\* availableShapes.filter((_, idx) => idx !== shapeIdx)
WithoutShape(shapes, shapeIdx) ==
    [i \in 1..(Len(shapes) - 1) |-> IF i <= shapeIdx THEN shapes[i] ELSE shapes[i + 1]]

\* App.tsx: newScore = score + blocksCount * 50; ShapeRenderer.tsx: newScore = score
PlacementScoreOf(file, score, matrix) ==
    IF file = "App.tsx" THEN score + SumFlat(matrix, 1) * 50 ELSE score

\* The products baseLineBonus * comboMultiplier * (1 + newStreak * 0.1) that
\* the double arithmetic leaves just below the integer, as
\* << totalLines, newCombo, newStreak >>, for at most 8 lines and
\* multipliers of at most 5.
RoundedDown ==
    { <<4, 1, 4>>, <<4, 2, 4>>, <<4, 4, 4>>, <<5, 3, 4>>, <<6, 5, 4>>,
      <<8, 1, 4>>, <<8, 2, 4>>, <<8, 4, 4>> }

\* The bonus of a clear.  App.tsx: (totalLines * 1000 + ...) * newCombo;
\* ShapeRenderer.tsx: Math.floor(baseLineBonus * newCombo * (1 + newStreak * 0.1)).
LineBonus(file, totalLines, newCombo, newStreak) ==
    IF file = "App.tsx"
    THEN (totalLines * 1000 + (IF totalLines > 1 THEN (totalLines - 1) * 500 ELSE 0)) * newCombo
    ELSE LET baseLineBonus ==
                 totalLines * 2000 + (IF totalLines > 1 THEN (totalLines - 1) * 1000 ELSE 0)
         IN  (baseLineBonus * newCombo * (10 + newStreak)) \div 10
             - (IF <<totalLines, newCombo, newStreak>> \in RoundedDown THEN 1 ELSE 0)

\* The hand generateNewShapes of App.tsx makes, n pieces having been made before.
RandomShapes(rnd, n) ==
    [i \in 1..HAND_SIZE |->
        [id |-> n + i, matrix |-> SHAPES[FloorOf(rnd.shape[i], Len(SHAPES)) + 1],
         color |-> SHAPE_COLORS[FloorOf(rnd.color[i], Len(SHAPE_COLORS)) + 1]]]

\* The hands generateNewShapes can make in the state (g, h).
NewShapes(g, h) ==
    IF h.file = "App.tsx"
    THEN { RandomShapes(rnd, h.nextId) : rnd \in AppDraws }
    ELSE { generateSmartShapes(h.score, g,
               [rnd EXCEPT !.id = [i \in 1..4 |-> h.nextId + i]]) : rnd \in HostRuns }

\* The condition of the initialization effect.
HandIsMissing(h) == h.view = "game" /\ Len(h.availableShapes) = 0 /\ ~h.isGameOver

\* The condition of the game-over effect.
GameIsOver(g, h) ==
    /\ h.view = "game" /\ ~h.isGameOver
    /\ Len(h.availableShapes) > 0 /\ h.clearingLines = Nothing
    /\ checkGameOver(g, Matrices(h.availableShapes))

\* No effect has work to do.
Settled == ~HandIsMissing(host) /\ ~GameIsOver(grid, host)

\* useEffect: generateNewShapes() when the hand is empty.
GenerateNewShapes ==
    /\ HandIsMissing(host)
    /\ \E newShapes \in NewShapes(grid, host) :
           host' = [host EXCEPT !.availableShapes = newShapes, !.hint = Nothing,
                                !.nextId = @ + 4]
    /\ call' = [op |-> "generateNewShapes", done |-> TRUE]
    /\ UNCHANGED grid

\* useEffect: setIsGameOver(true) when checkGameOver holds.
GameOverCheck ==
    /\ GameIsOver(grid, host)
    /\ host' = [host EXCEPT !.isGameOver = TRUE]
    /\ call' = [op |-> "checkGameOver", done |-> TRUE]
    /\ UNCHANGED grid

\* startNewGame('infinite'): every state is set to its first value, but for
\* showResetConfirm in App.tsx; the timer of a clear is not cancelled.
startNewGame(g, h) ==
    [grid |-> createEmptyGrid,
     host |-> [Mounted(h.file) EXCEPT
                  !.view = "game", !.timers = h.timers, !.events = h.events + 1,
                  !.showResetConfirm =
                      IF h.file = "ShapeRenderer.tsx" THEN FALSE ELSE h.showResetConfirm]]

\* The buttons that call startNewGame: on the home view, on the game-over
\* overlay and on the reset confirmation.
StartNewGame ==
    /\ Settled /\ host.events < MaxEvents
    /\ host.view = "home" \/ host.isGameOver \/ host.showResetConfirm
    /\ LET next == startNewGame(grid, host)
       IN  grid' = next.grid /\ host' = next.host
    /\ call' = [op |-> "startNewGame", done |-> TRUE]

\* The home button of the game view: setShowResetConfirm(true).
ShowResetConfirm ==
    /\ Settled /\ host.events < MaxEvents
    /\ host.view = "game" /\ ~host.showResetConfirm
    /\ host' = [host EXCEPT !.showResetConfirm = TRUE]
    /\ call' = [op |-> "setShowResetConfirm", done |-> TRUE]
    /\ UNCHANGED grid

\* The Cancel button of the reset confirmation: setShowResetConfirm(false).
CancelReset ==
    /\ Settled /\ host.events < MaxEvents
    /\ host.view = "game" /\ host.showResetConfirm
    /\ host' = [host EXCEPT !.showResetConfirm = FALSE]
    /\ call' = [op |-> "setShowResetConfirm", done |-> TRUE]
    /\ UNCHANGED grid

\* The buttons of the game-over overlay and of the reset confirmation that
\* leave the game: setView('home').
ExitToHome ==
    /\ Settled /\ host.events < MaxEvents
    /\ host.view = "game" /\ (host.isGameOver \/ host.showResetConfirm)
    /\ host' = [host EXCEPT !.view = "home"]
    /\ call' = [op |-> "setView", done |-> TRUE]
    /\ UNCHANGED grid

\* The first guard of the handlers of the game view.
Busy(h) == h.isGameOver \/ h.showResetConfirm \/ h.clearingLines # Nothing

\* A call that returns at its guards changes nothing; such calls are
\* followed while lines are clearing, when the guards are what keeps the
\* handlers out.
Followed(returns) == ~returns \/ host.clearingLines # Nothing

\* handleSelectShape(index)
HandleSelectShape(index) ==
    /\ Settled /\ host.events < MaxEvents
    /\ host.view = "game" /\ index < Len(host.availableShapes)
    /\ Followed(Busy(host))
    /\ IF Busy(host)
       THEN /\ call' = [op |-> "handleSelectShape", done |-> FALSE]
            /\ UNCHANGED host
       ELSE /\ host' = [host EXCEPT
                           !.hint = Nothing,
                           !.selectedShapeIdx = IF @ = << index >> THEN Nothing ELSE << index >>]
            /\ call' = [op |-> "handleSelectShape", done |-> TRUE]
    /\ UNCHANGED grid

\* attemptPlaceShape(shapeIdx, r, c) in the state (g, h): the state it
\* leaves and whether canPlaceShape held.
attemptPlaceShape(g, h, shapeIdx, r, c) ==
    IF h.clearingLines # Nothing \/ shapeIdx >= Len(h.availableShapes)
    THEN [grid |-> g, host |-> h, canPlace |-> FALSE]
    ELSE
    LET shapeObj == h.availableShapes[shapeIdx + 1]
        pos == [r |-> r, c |-> c]
    IN  IF ~canPlaceShape(g, shapeObj.matrix, pos)
        THEN [grid |-> g, host |-> h, canPlace |-> FALSE]
        ELSE
        LET currentState == GameStateOf(g, h)
            newGrid == placeShapeOnGrid(g, shapeObj.matrix, pos, shapeObj.color)
            newScore == PlacementScoreOf(h.file, h.score, shapeObj.matrix)
            lines == findClearedLines(newGrid)
            nextShapes == WithoutShape(h.availableShapes, shapeIdx)
            pushed == [h EXCEPT !.history = Append(@, currentState),
                                !.before = Append(@, currentState),
                                !.redoStack = << >>,
                                !.hint = Nothing,
                                !.availableShapes = nextShapes,
                                !.events = @ + 1]
        IN  IF Len(lines.rowIndices) > 0 \/ Len(lines.colIndices) > 0
            THEN [grid |-> newGrid,
                  host |-> [pushed EXCEPT
                               !.comboCount = h.comboCount + 1,
                               !.streak = IF h.file = "App.tsx" THEN @ ELSE h.streak + 1,
                               !.clearingLines =
                                   << [rows |-> lines.rowIndices, cols |-> lines.colIndices] >>,
                               !.timers =
                                   Append(@, [newGrid |-> newGrid,
                                              rowIndices |-> lines.rowIndices,
                                              colIndices |-> lines.colIndices,
                                              newScore |-> newScore,
                                              newCombo |-> h.comboCount + 1,
                                              newStreak |-> h.streak + 1])],
                  canPlace |-> TRUE]
            ELSE [grid |-> newGrid,
                  host |-> [pushed EXCEPT !.comboCount = 0, !.streak = 0,
                                          !.score = newScore],
                  canPlace |-> TRUE]

\* handleClickCell(r, c): attemptPlaceShape(selectedShapeIdx, r, c) and
\* setSelectedShapeIdx(null), unless a guard returns first.
HandleClickCell(r, c) ==
    /\ Settled /\ host.events < MaxEvents
    /\ host.view = "game"
    /\ Followed(host.selectedShapeIdx = Nothing \/ Busy(host))
    /\ IF host.selectedShapeIdx = Nothing \/ Busy(host)
       THEN /\ call' = [op |-> "handleClickCell", done |-> FALSE, canPlace |-> FALSE]
            /\ UNCHANGED <<grid, host>>
       ELSE LET next == attemptPlaceShape(grid, host, host.selectedShapeIdx[1], r, c)
            IN  /\ grid' = next.grid
                /\ host' = [next.host EXCEPT !.selectedShapeIdx = Nothing]
                /\ call' = [op |-> "handleClickCell", done |-> TRUE,
                            canPlace |-> next.canPlace]

\* The callback of setTimeout(..., 400): the first of the callbacks not yet
\* run, all having the same delay.
DelayedClear ==
    /\ Settled
    /\ host.timers # << >>
    /\ LET t == Head(host.timers)
           totalLines == Len(t.rowIndices) + Len(t.colIndices)
       IN  /\ grid' = clearLines(t.newGrid, t.rowIndices, t.colIndices)
           /\ host' = [host EXCEPT
                          !.score = t.newScore
                                    + LineBonus(host.file, totalLines, t.newCombo, t.newStreak),
                          !.clearingLines = Nothing,
                          !.timers = Tail(@)]
    /\ call' = [op |-> "setTimeout", done |-> TRUE]

\* The guards of handleUndo.
UndoReturns(h) ==
    \/ Len(h.history) = 0 \/ h.clearingLines # Nothing \/ h.showResetConfirm
    \/ h.left.undos <= 0

\* handleUndo; App.tsx pushes the current state on redoStack first.
HandleUndo ==
    /\ Settled /\ host.events < MaxEvents
    /\ host.view = "game"
    /\ Followed(UndoReturns(host))
    /\ IF UndoReturns(host)
       THEN /\ call' = [op |-> "handleUndo", done |-> FALSE]
            /\ UNCHANGED <<grid, host>>
       ELSE LET previousState == host.history[Len(host.history)]
            IN  /\ grid' = previousState.grid
                /\ host' = [host EXCEPT
                               !.redoStack = IF host.file = "App.tsx"
                                             THEN Append(@, GameStateOf(grid, host)) ELSE @,
                               !.score = previousState.score,
                               !.availableShapes = previousState.availableShapes,
                               !.isGameOver = previousState.isGameOver,
                               !.comboCount = previousState.comboCount,
                               !.streak = previousState.streak,
                               !.history = SubSeq(@, 1, Len(@) - 1),
                               !.before = SubSeq(@, 1, Len(@) - 1),
                               !.selectedShapeIdx = Nothing,
                               !.hint = Nothing,
                               !.left = [@ EXCEPT !.undos = @ - 1],
                               !.events = @ + 1]
                /\ call' = [op |-> "handleUndo", done |-> TRUE]

\* The guards of handleRedo.
RedoReturns(h) ==
    \/ Len(h.redoStack) = 0 \/ h.clearingLines # Nothing
    \/ h.showResetConfirm \/ h.isGameOver
    \/ h.left.redos <= 0

\* handleRedo of App.tsx
HandleRedo ==
    /\ Settled /\ host.events < MaxEvents
    /\ host.file = "App.tsx"
    /\ host.view = "game"
    /\ Followed(RedoReturns(host))
    /\ IF RedoReturns(host)
       THEN /\ call' = [op |-> "handleRedo", done |-> FALSE]
            /\ UNCHANGED <<grid, host>>
       ELSE LET nextState == host.redoStack[Len(host.redoStack)]
            IN  /\ grid' = nextState.grid
                /\ host' = [host EXCEPT
                               !.history = Append(@, GameStateOf(grid, host)),
                               !.before = Append(@, GameStateOf(grid, host)),
                               !.score = nextState.score,
                               !.availableShapes = nextState.availableShapes,
                               !.isGameOver = nextState.isGameOver,
                               !.comboCount = nextState.comboCount,
                               !.redoStack = SubSeq(@, 1, Len(@) - 1),
                               !.selectedShapeIdx = Nothing,
                               !.hint = Nothing,
                               !.left = [@ EXCEPT !.redos = @ - 1],
                               !.events = @ + 1]
                /\ call' = [op |-> "handleRedo", done |-> TRUE]

\* handleRefresh
HandleRefresh ==
    /\ Settled /\ host.events < MaxEvents
    /\ host.view = "game"
    /\ Followed(Busy(host) \/ host.left.refreshes <= 0)
    /\ IF Busy(host) \/ host.left.refreshes <= 0
       THEN /\ call' = [op |-> "handleRefresh", done |-> FALSE]
            /\ UNCHANGED host
       ELSE /\ \E newShapes \in NewShapes(grid, host) :
                   host' = [host EXCEPT
                               !.availableShapes = newShapes,
                               !.nextId = @ + 4,
                               !.left = [@ EXCEPT !.refreshes = @ - 1], !.events = @ + 1,
                               !.selectedShapeIdx = Nothing,
                               !.hint = Nothing]
            /\ call' = [op |-> "handleRefresh", done |-> TRUE]
    /\ UNCHANGED grid

\* shape.matrix = rotateShapeMatrix(shape.matrix) as an array that holds
\* the piece of that id shows it: the hand, or the hand of a snapshot.
RotateInPlace(shapes, id) ==
    [i \in DOMAIN shapes |->
        IF shapes[i].id = id
        THEN [shapes[i] EXCEPT !.matrix = rotateShapeMatrix(@)] ELSE shapes[i]]

\* handleRotate of ShapeRenderer.tsx
HandleRotate ==
    /\ Settled /\ host.events < MaxEvents
    /\ host.file = "ShapeRenderer.tsx"
    /\ host.view = "game"
    /\ Followed(Busy(host) \/ host.selectedShapeIdx = Nothing \/ host.left.rotators <= 0)
    /\ IF Busy(host) \/ host.selectedShapeIdx = Nothing \/ host.left.rotators <= 0
       THEN /\ call' = [op |-> "handleRotate", done |-> FALSE]
            /\ UNCHANGED host
       ELSE LET id == host.availableShapes[host.selectedShapeIdx[1] + 1].id
            IN  /\ host' = [host EXCEPT
                               !.availableShapes = RotateInPlace(@, id),
                               !.history =
                                   [k \in DOMAIN @ |->
                                       [@[k] EXCEPT !.availableShapes =
                                                        RotateInPlace(@, id)]],
                               !.left = [@ EXCEPT !.rotators = @ - 1], !.events = @ + 1,
                               !.hint = Nothing]
                /\ call' = [op |-> "handleRotate", done |-> TRUE]
    /\ UNCHANGED grid

\* The guards of handleHint.
HintReturns(h) ==
    \/ h.isGameOver \/ Len(h.availableShapes) = 0
    \/ h.showResetConfirm \/ h.clearingLines # Nothing
    \/ h.left.hints <= 0

\* handleHint
HandleHint ==
    /\ Settled /\ host.events < MaxEvents
    /\ host.view = "game"
    /\ Followed(HintReturns(host))
    /\ IF HintReturns(host)
       THEN /\ call' = [op |-> "handleHint", done |-> FALSE]
            /\ UNCHANGED host
       ELSE LET bestMove == findBestMove(grid, host.availableShapes)
            IN  IF bestMove # Nothing
                THEN /\ host' = [host EXCEPT !.hint = bestMove,
                                             !.left = [@ EXCEPT !.hints = @ - 1], !.events = @ + 1]
                     /\ call' = [op |-> "handleHint", done |-> TRUE]
                ELSE /\ call' = [op |-> "handleHint", done |-> FALSE]
                     /\ UNCHANGED host
    /\ UNCHANGED grid

InitHost ==
    /\ grid = createEmptyGrid
    /\ call = NoCall
    /\ \E file \in { "App.tsx", "ShapeRenderer.tsx" } : host = Mounted(file)

NextHost ==
    \/ GenerateNewShapes
    \/ GameOverCheck
    \/ StartNewGame
    \/ ShowResetConfirm
    \/ CancelReset
    \/ ExitToHome
    \/ \E index \in 0..(HAND_SIZE - 1) : HandleSelectShape(index)
    \/ \E p \in ClickCells : HandleClickCell(p[1], p[2])
    \/ DelayedClear
    \/ HandleUndo
    \/ HandleRedo
    \/ HandleRefresh
    \/ HandleRotate
    \/ HandleHint

SpecHost == InitHost /\ [][NextHost]_vars

\* ---------------------------------------------------------------------------
\* Properties of the host (SpecHost)
\* ---------------------------------------------------------------------------

\* The cells of the grid that hold a block.
FilledOf(g) == { p \in Cells : g[p[1]][p[2]] # null }

\* A click on a cell.
ClickOnCell == \E p \in ClickCells : HandleClickCell(p[1], p[2])

\* C22: when attemptPlaceShape is called and canPlaceShape holds for the
\* grid, the selected piece and the cell clicked, the cells of the shape,
\* all empty before, are the cells that become filled, and the hand loses
\* that piece alone, the others keeping their order; in every other case a
\* click leaves grid, score, hand and undo history as they were.
C22_PlacementOnlyWhenLegal ==
    [][ \A p \in ClickCells :
          HandleClickCell(p[1], p[2]) =>
            LET hand == host.availableShapes
                pos == [r |-> p[1], c |-> p[2]]
            IN  IF /\ call'.done
                   /\ canPlaceShape(grid, hand[host.selectedShapeIdx[1] + 1].matrix, pos)
                THEN LET shapeIdx == host.selectedShapeIdx[1]
                         cells == Footprint(hand[shapeIdx + 1].matrix, pos)
                     IN  /\ FilledOf(grid) \cap cells = {}
                         /\ FilledOf(grid') = FilledOf(grid) \cup cells
                         /\ host'.availableShapes =
                                SubSeq(hand, 1, shapeIdx) \o SubSeq(hand, shapeIdx + 2, Len(hand))
                ELSE /\ grid' = grid
                     /\ host'.score = host.score
                     /\ host'.availableShapes = host.availableShapes
                     /\ host'.history = host.history ]_vars

\* A piece that was not the first of a hand of three has been placed on a
\* grid that held a block, and completed no line.
C22_Witness ==
    /\ host.file # "none"
    /\ call.op = "handleClickCell" /\ call.done /\ call.canPlace
    /\ host.clearingLines = Nothing
    /\ Len(host.availableShapes) = 1
    /\ Cardinality(FilledOf(grid)) = 5

\* C23: from a placement that completes a line until the callback it gave
\* to setTimeout has run, a click on a cell and the undo, redo, refresh,
\* rotate and hint handlers leave the grid and the whole state of the host
\* as they are, so no placement is made and no second timer is started
\* before the pending clear has been applied.
C23_RequestsWaitForTheClear ==
    [][ ( /\ host.file # "none"
          /\ host.timers # << >>
          /\ \/ ClickOnCell \/ HandleUndo \/ HandleRedo
             \/ HandleRefresh \/ HandleRotate \/ HandleHint )
        => UNCHANGED <<grid, host>> ]_vars

\* C25: an undo gives the grid, the score, the combo count and the hand the
\* values they had just before the placement it takes back, whatever was
\* done in between.
C25_UndoRestoresThePlacementState ==
    [][ (HandleUndo /\ call'.done) =>
          LET b == host.before[Len(host.before)]
          IN  /\ grid' = b.grid
              /\ host'.score = b.score
              /\ host'.comboCount = b.comboCount
              /\ host'.availableShapes = b.availableShapes ]_vars

\* C26: a hint that is not null names a piece of the hand and a cell where
\* canPlaceShape holds for that piece on the grid.
C26_HintIsAlwaysPlayable ==
    host.file # "none" /\ host.hint # Nothing =>
        LET move == host.hint[1]
        IN  /\ move.shapeIdx < Len(host.availableShapes)
            /\ canPlaceShape(grid, host.availableShapes[move.shapeIdx + 1].matrix,
                             [r |-> move.r, c |-> move.c])

\* C27: when clearingLines is null no row and no column of the grid is
\* fully occupied.
C27_NoFullLineUnlessClearing ==
    host.file # "none" /\ host.clearingLines = Nothing =>
        /\ \A r \in Coords : \E c \in Coords : grid[r][c] = null
        /\ \A c \in Coords : \E r \in Coords : grid[r][c] = null

\* The delayed clear has run and has left a block on the grid.
C27_Witness ==
    /\ host.file # "none"
    /\ call.op = "setTimeout"
    /\ host.clearingLines = Nothing
    /\ FilledOf(grid) # {}
    /\ host.score > 0

\* The state startNewGame leaves, as long as no piece has been placed.
NewGameState ==
    /\ grid = createEmptyGrid
    /\ host.score = 0
    /\ host.clearingLines = Nothing
    /\ host.history = << >> /\ host.redoStack = << >>

\* C28: startNewGame leaves an empty grid, the score 0 and no clear
\* pending, and no step but a placement ends that.
C28_NewGameStaysClean ==
    [][ /\ StartNewGame => NewGameState'
        /\ (NewGameState /\ ~ClickOnCell) => NewGameState' ]_vars

\* C29: the game-over flag is set only when the hand is not empty and none
\* of its pieces fits anywhere on the grid.
C29_GameOverOnlyWhenNothingFits ==
    host.file # "none" /\ host.isGameOver =>
        /\ Len(host.availableShapes) > 0
        /\ NoShapeFits(grid, Matrices(host.availableShapes))

\* ---------------------------------------------------------------------------
\* The fill tags: canPlaceShape, findClearedLines, checkGameOver and
\* findBestMove called on a grid and a hand, and on the same grid and hand
\* under other tags.
\* ---------------------------------------------------------------------------

\* The grid g with the tag of every block replaced by tag.
Retagged(g, tag) ==
    [r \in DOMAIN g |-> [c \in DOMAIN g[r] |-> IF g[r][c] = null THEN null ELSE tag]]

\* The hand with other ids and with every color replaced by tag.
Recolored(hand, tag) ==
    [i \in DOMAIN hand |->
        [id |-> <<"t1", "t2", "t3">>[i], matrix |-> hand[i].matrix, color |-> tag]]

\* The tags the second call sees: the first color, which the input grids
\* hold on every other cell, and the last one, which they do not hold.
OtherTags == { SHAPE_COLORS[1], SHAPE_COLORS[Len(SHAPE_COLORS)] }

\* Grids of the generator, grids with at most one block and grids of one
\* line that lacks one cell, and grids of full rows and columns.
TagGrids ==
    GeneratorGrids \cup { GridOf(S) : S \in OneCell } \cup { GridOf(S) : S \in LinesWithGap }
    \cup { GridOf(Cross({i}, {j})) : i \in Coords, j \in Coords }

\* Hands of at most two pieces.
TagHands == { h \in InputHands : Len(h) < HAND_SIZE }

TagCanPlaceShape(shape, pos, tag) ==
    /\ call.op = "none"
    /\ call' = [op |-> "canPlaceShape", tagged |-> Retagged(grid, tag),
                ret |-> canPlaceShape(grid, shape, pos),
                retTagged |-> canPlaceShape(Retagged(grid, tag), shape, pos)]
    /\ UNCHANGED <<grid, host>>

TagFindClearedLines(tag) ==
    /\ call.op = "none"
    /\ call' = [op |-> "findClearedLines", tagged |-> Retagged(grid, tag),
                ret |-> findClearedLines(grid),
                retTagged |-> findClearedLines(Retagged(grid, tag))]
    /\ UNCHANGED <<grid, host>>

TagCheckGameOver(hand, tag) ==
    /\ call.op = "none"
    /\ call' = [op |-> "checkGameOver", tagged |-> Retagged(grid, tag),
                ret |-> checkGameOver(grid, Matrices(hand)),
                retTagged |-> checkGameOver(Retagged(grid, tag),
                                            Matrices(Recolored(hand, tag)))]
    /\ UNCHANGED <<grid, host>>

TagFindBestMove(hand, tag) ==
    /\ call.op = "none"
    /\ call' = [op |-> "findBestMove", tagged |-> Retagged(grid, tag),
                shapes |-> hand,
                ret |-> findBestMove(grid, hand),
                retTagged |-> findBestMove(Retagged(grid, tag), Recolored(hand, tag))]
    /\ UNCHANGED <<grid, host>>

InitTags == grid \in TagGrids /\ call = NoCall /\ host = NoHost

NextTags ==
    \/ \E shape \in InputShapes, pos \in BoardAnchors, tag \in OtherTags :
           TagCanPlaceShape(shape, pos, tag)
    \/ \E tag \in OtherTags : TagFindClearedLines(tag)
    \/ \E hand \in TagHands, tag \in OtherTags : TagCheckGameOver(hand, tag)
    \/ \E hand \in TagHands, tag \in OtherTags : TagFindBestMove(hand, tag)

SpecTags == InitTags /\ [][NextTags]_vars

\* C24: canPlaceShape, findClearedLines, checkGameOver and findBestMove
\* return the same result for two grids with the same occupied cells and two
\* hands with the same matrices in the same order, whatever the tags of the
\* blocks and the ids and colors of the pieces.
C24_ResultsIgnoreTheTags ==
    call.op # "none" => call.retTagged = call.ret

\* findBestMove has returned a move for a grid with blocks of two colors
\* and a hand of two pieces, and has been run again with every block and
\* every piece in one color.
C24_Witness ==
    /\ call.op = "findBestMove"
    /\ call.ret # << >>
    /\ Len(call.shapes) = 2
    /\ call.tagged # grid
    /\ \E p, q \in FilledOf(grid) : grid[p[1]][p[2]] # grid[q[1]][q[2]]

\* ---------------------------------------------------------------------------
\* The catalogs: a shape of SHAPES, rotated any number of times, then tried
\* on a grid at an anchor on the board or up to MaxOut cells outside it.
\* ---------------------------------------------------------------------------

\* The empty grid and grids with one block: in the first corner, next to
\* it on the diagonal, and in the last corner.
CatalogGrids ==
    { GridOf(S) : S \in { {}, {<<0, 0>>}, {<<1, 1>>}, {<<BOARD_SIZE - 1, BOARD_SIZE - 1>>} } }

\* A shape of the catalogs is taken as it is defined.
TakeShape(k) ==
    /\ call.op = "none"
    /\ call' = [op |-> "shape", index |-> k, matrix |-> SHAPES[k], turns |-> 0]
    /\ UNCHANGED <<grid, host>>

\* rotateShapeMatrix applied to the matrix once more; turns counts the
\* applications modulo 4.
RotateShape ==
    /\ call.op = "shape"
    /\ call' = [call EXCEPT !.matrix = rotateShapeMatrix(@), !.turns = (@ + 1) % 4]
    /\ UNCHANGED <<grid, host>>

\* canPlaceShape at an anchor, and the three functions that scan the
\* anchors of the board, called with the matrix on the grid.
TryShape(pos) ==
    /\ call.op = "shape"
    /\ call' = [op |-> "canPlaceShape", index |-> call.index, matrix |-> call.matrix,
                turns |-> call.turns, pos |-> pos,
                ret |-> canPlaceShape(grid, call.matrix, pos),
                fits |-> canShapeFitAnywhere(grid, call.matrix),
                over |-> checkGameOver(grid, << call.matrix >>),
                best |-> findBestMove(grid, << Piece(1, call.matrix) >>)]
    /\ UNCHANGED <<grid, host>>

InitCatalog == grid \in CatalogGrids /\ call = NoCall /\ host = NoHost

NextCatalog ==
    \/ \E k \in DOMAIN SHAPES : TakeShape(k)
    \/ RotateShape
    \/ \E pos \in Anchors : TryShape(pos)

SpecCatalog == InitCatalog /\ [][NextCatalog]_vars

\* C30: a catalog shape, however often rotated, has a filled cell in its
\* first row and one in its first column; so an anchor where canPlaceShape
\* succeeds lies on the board, and when it succeeds anywhere
\* canShapeFitAnywhere is true, checkGameOver is false and findBestMove
\* returns a move.
C30_CatalogShapesTouchTheirAnchor ==
    /\ call.op \in { "shape", "canPlaceShape" } =>
          /\ \E c \in DOMAIN call.matrix[1] : call.matrix[1][c] = 1
          /\ \E r \in DOMAIN call.matrix : call.matrix[r][1] = 1
    /\ call.op = "canPlaceShape" /\ call.ret =>
          /\ call.pos.r \in Coords /\ call.pos.c \in Coords
          /\ call.fits /\ ~call.over /\ call.best # << >>

\* A shape rotated once whose anchor cell is not filled has been placed at
\* the first anchor of the board.
C30_Witness ==
    /\ call.op = "canPlaceShape" /\ call.ret
    /\ call.turns = 1
    /\ call.matrix[1][1] = 0
    /\ call.pos = [r |-> 0, c |-> 0]
====
